---------------------------- MODULE Spec2Model ----------------------------
(***************************************************************************)
(* Model of the data synchronisation core of Panoptisana (asana-list):     *)
(*   - AsanaAPI._applyFilters        (src/src/main/asana-api.js)           *)
(*   - AsanaAPI._fetch               (src/src/main/asana-api.js)           *)
(*   - AsanaAPI polling and _poll    (src/src/main/asana-api.js)           *)
(*   - Store constructor, settings   (src/src/main/store.ts)               *)
(* Each part has its own specification over its own variables; the         *)
(* variables of the other parts stay at their idle values.                 *)
(***************************************************************************)
EXTENDS Integers, Sequences, FiniteSets, TLC

VARIABLES
    \* ---- _applyFilters call -------------------------------------------
    items,            \* argument: the item list
    includePatterns,  \* settings.included<Type>Patterns
    gidList,          \* settings.excluded<Type>Gids
    excludePatterns,  \* settings.excluded<Type>Patterns
    filtered,         \* the list returned
    fpc,              \* "off" | "call" | "returned"
    \* ---- one _fetch call (with its recursive retries) -----------------
    hpc,              \* "off" | "idle" | "inflight" | "backoff" | "returned" | "threw"
    retryCount,       \* the retryCount argument of the current invocation
    requests,         \* HTTP requests issued by the call so far
    responses,        \* statuses received by the call so far, in order
    retryAfterHeader, \* Retry-After header of the last 429 retried
    waitMs,           \* waitMs computed for that 429 (a JavaScript number)
    delay,            \* milliseconds the timer of that backoff really waits
    fetchError,       \* why the call threw: "none" | "nokey" | "http" | "network" | "json"
    keyState,         \* what the current invocation's getApiKey() found: the
                      \* stored settings.apiKey and whether safeStorage works
    caller,           \* who awaits the call: "_fetch" (any caller) | "verifyApiKey"
    vpc,              \* verifyApiKey: "off" | "pending" | "returned" | "threw"
    verifyResult,     \* what verifyApiKey returned: [valid, detail]
    \* ---- Store constructor (store.ts) ---------------------------------
    primary,          \* the file at _dbPath: [kind, data]
    backup,           \* the file at _backupPath: [kind, data]
    primary0,         \* the primary file when the constructor was entered
    backup0,          \* the backup file when the constructor was entered
    cpc,              \* "off" | "backup" | "open" | "recover" | "pragmas" |
                      \* "schema" | "prepare" | "done" | "thrown"
    dbHandle,         \* "none" | "open": the handle _openDatabase holds
    fsFault,          \* a copyFileSync call of the constructor has failed
    \* ---- Store settings (store.ts 202-218) ----------------------------
    settingsRows,     \* table settings: key -> value TEXT, or NoRow
    lastUpdates,      \* argument of the last setSettings call
    before,           \* what getSettings() returned before that call
    spc,              \* "off" | "ready" | "called" | "threw"
    entryOrder,       \* Object.entries(updates) of that call: its keys in order
    failedAt,         \* index of the entry whose write threw in that call (0: none)
    \* ---- Sync engine: AsanaAPI polling over the Store -----------------
    settings,         \* what store.getSettings() returns
    cachedTasks,      \* cache row 'tasks'
    cachedProjects,   \* cache row 'projects'
    cachedUsers,      \* cache row 'users'
    tasksWriter,      \* index of the cycle that last wrote cachedTasks (0: none)
    projectsWriter,   \* index of the cycle that last wrote cachedProjects (0: none)
    _pollTimer,       \* NoTimer, or the id of the timer setInterval returned
    liveTimers,       \* the interval timers of the runtime: [id, minutes, ms, by]
    _onUpdate,        \* TRUE iff a subscriber callback is registered
    cycles,           \* one record per _poll() invocation, in start order
    cycleCap,         \* bound of the run: _poll() invocations
    taskCap,          \* bound of the run: tasks in one remote reply
    \* ---- one _fetchAll call against a paginated source ----------------
    apc,              \* "off" | "idle" | "inflight" | "returned" | "threw"
    endpoint,         \* the endpoint argument (text)
    source,           \* the pages the remote serves: [data, cursor] each
    allData,          \* records accumulated so far
    nextPage,         \* cursor of the last page received, or NoCursor
    pageUrls,         \* the URLs given to _fetch so far, in order
    \* ---- the open Store and its files (store.ts 200-290) --------------
    stpc,             \* "off" | "open" | "flushed" (flush() was the last call)
    dbFile,           \* tables of the database file panoptisana.db
    walFile,          \* committed writes in the write-ahead log, oldest first
    made,             \* the tables as the calls that returned have left them
    lastCall,         \* the last Store call: [op, key, value, threw]
    calls,            \* number of Store calls so far
    checkpointed,     \* the checkpoint of the last flush() succeeded
    \* ---- a cycle with its requests --------------------------------------
    awaited           \* the await of a cycle the request layer is serving

filterVars == <<items, includePatterns, gidList, excludePatterns, filtered, fpc>>

fetchVars == <<hpc, retryCount, requests, responses, retryAfterHeader, waitMs,
               delay, fetchError, keyState, caller, vpc, verifyResult>>

ctorVars == <<primary, backup, primary0, backup0, cpc, dbHandle, fsFault>>

settingsVars == <<settingsRows, lastUpdates, before, spc, entryOrder, failedAt>>

engineVars == <<settings, cachedTasks, cachedProjects, cachedUsers, tasksWriter,
                projectsWriter, _pollTimer, liveTimers, _onUpdate, cycles, cycleCap,
                taskCap>>

fetchAllVars == <<apc, endpoint, source, allData, nextPage, pageUrls>>

storeApiVars == <<stpc, dbFile, walFile, made, lastCall, calls, checkpointed>>

\* The parts added to the first five.
liveVars == <<awaited>>

moreVars == <<fetchAllVars, storeApiVars, liveVars>>

vars == <<filterVars, fetchVars, ctorVars, settingsVars, engineVars, moreVars>>

(***************************************************************************)
(* Text.  A JavaScript string is a sequence of one-character strings.      *)
(***************************************************************************)
\* String.prototype.toLowerCase on the letters the model uses.
LowerChar(c) ==
    CASE c = "L" -> "l"
      [] c = "O" -> "o"
      [] c = "R" -> "r"
      [] c = "E" -> "e"
      [] c = "V" -> "v"
      [] c = "I" -> "i"
      [] c = "W" -> "w"
      [] OTHER   -> c

toLowerCase(s) == [i \in 1..Len(s) |-> LowerChar(s[i])]

\* String.prototype.includes: p occurs in s as a contiguous substring
\* (the empty string occurs in every string).
includes(s, p) ==
    \E i \in 0..(Len(s) - Len(p)) :
        \A j \in 1..Len(p) : s[i + j] = p[j]

\* All sequences over S of length at most n.
SeqUpTo(S, n) == UNION {[1..k -> S] : k \in 0..n}

Range(s) == {s[i] : i \in 1..Len(s)}

\* Names of tasks and projects.
LaunchPlan   == <<"L","a","u","n","c","h"," ","p","l","a","n">>
LaunchReview == <<"L","a","u","n","c","h"," ","r","e","v","i","e","w">>
Other        == <<"O","t","h","e","r">>

(***************************************************************************)
(* _applyFilters (asana-api.js 216-240)                                    *)
(***************************************************************************)
\* A name that is missing (undefined) on the item.
NoName == <<"<undefined>">>

\* item.name || ''   (an empty name is falsy too)
NameOrEmpty(item) == IF item.name = NoName THEN <<>> ELSE item.name

\* Mutant of PatternMatches: the pattern is not lower-cased.
PatternMatchesCaseSensitive(name, p) == p # <<>> /\ includes(name, p)

\* Mutant of PatternMatches: without the `p &&` guard.
PatternMatchesUnguarded(name, p) == includes(name, toLowerCase(p))

\* p && name.includes(p.toLowerCase()): an empty pattern is falsy
PatternMatches(name, p) == p # <<>> /\ includes(name, toLowerCase(p))

\* Mutant of KeepItem: only the first entry of each list is looked at.
KeepItemFirstEntries(item, incl, gids, excl) ==
    LET name == toLowerCase(NameOrEmpty(item)) IN
    /\ (Len(incl) > 0 => PatternMatches(name, incl[1]))
    /\ ~(Len(gids) > 0 /\ gids[1] = item.gid)
    /\ ~(Len(excl) > 0 /\ PatternMatches(name, excl[1]))

\* The callback of items.filter: TRUE iff the item is kept.
KeepItem(item, incl, gids, excl) ==
    LET name == toLowerCase(NameOrEmpty(item)) IN
    /\ (Len(incl) > 0 => \E i \in 1..Len(incl) : PatternMatches(name, incl[i]))
    /\ ~(\E i \in 1..Len(gids) : gids[i] = item.gid)
    /\ ~(\E i \in 1..Len(excl) : PatternMatches(name, excl[i]))

_applyFilters(its, incl, gids, excl) ==
    LET Keep(item) == KeepItem(item, incl, gids, excl) IN SelectSeq(its, Keep)

(***************************************************************************)
(* _fetch (asana-api.js 20-49)                                             *)
(***************************************************************************)
MAX_RETRIES == 3          \* asana-api.js 8
RetryAfterCap == 120      \* asana-api.js 36: Math.min(retryAfter, 120)
MsPerSecond == 1000       \* asana-api.js 36: * 1000
TIMEOUT_MAX == 2147483647 \* largest delay setTimeout accepts

\* A JavaScript number: an integer or NaN.
NaN == [nan |-> TRUE, n |-> 0]
Num(n) == [nan |-> FALSE, n |-> n]

Digits == {"0", "1", "2", "3", "4", "5", "6", "7", "8", "9"}

DigitValue(c) ==
    CASE c = "0" -> 0 [] c = "1" -> 1 [] c = "2" -> 2 [] c = "3" -> 3
      [] c = "4" -> 4 [] c = "5" -> 5 [] c = "6" -> 6 [] c = "7" -> 7
      [] c = "8" -> 8 [] c = "9" -> 9

\* The value of a sequence of decimal digits.
RECURSIVE DecimalValue(_)
DecimalValue(ds) ==
    IF ds = <<>> THEN 0
    ELSE 10 * DecimalValue(SubSeq(ds, 1, Len(ds) - 1)) + DigitValue(ds[Len(ds)])

\* The longest prefix of s made of digits.
DigitPrefix(s) ==
    LET n == CHOOSE k \in 0..Len(s) :
                 /\ \A i \in 1..k : s[i] \in Digits
                 /\ (k < Len(s) => s[k + 1] \notin Digits)
    IN SubSeq(s, 1, n)

\* parseInt(s, 10): an optional sign, then the leading digits; NaN without any.
parseInt(s) ==
    LET neg  == s # <<>> /\ s[1] = "-"
        rest == IF s # <<>> /\ s[1] \in {"-", "+"} THEN Tail(s) ELSE s
        ds   == DigitPrefix(rest)
    IN IF ds = <<>> THEN NaN
       ELSE Num(IF neg THEN 0 - DecimalValue(ds) ELSE DecimalValue(ds))

\* response.headers.get('Retry-After') when the header is absent (null).
NoHeader == <<"<null>">>

\* response.headers.get('Retry-After') || '30'
HeaderOrDefault(h) == IF h = NoHeader \/ h = <<>> THEN <<"3", "0">> ELSE h

\* Math.min(a, b) for b an integer: NaN if a is NaN.
MathMin(a, b) == IF a.nan THEN NaN ELSE Num(IF a.n < b THEN a.n ELSE b)

\* a * k
Times(a, k) == IF a.nan THEN NaN ELSE Num(a.n * k)

\* Mutant of WaitMs: the Retry-After value is not clamped.
WaitMsUnclamped(h) == Times(parseInt(HeaderOrDefault(h)), MsPerSecond)

\* const waitMs = Math.min(retryAfter, 120) * 1000
WaitMs(h) == Times(MathMin(parseInt(HeaderOrDefault(h)), RetryAfterCap), MsPerSecond)

\* setTimeout(f, ms): a delay that is NaN, below 1 or above TIMEOUT_MAX is 1.
TimerDelay(ms) ==
    IF ms.nan \/ ms.n < 1 \/ ms.n > TIMEOUT_MAX THEN 1 ELSE ms.n

\* response.ok
ResponseOk(status) == status >= 200 /\ status <= 299

\* Mutant of ShouldRetry: every failed response is retried.
ShouldRetryAnyFailure(status, rc) == ~ResponseOk(status) /\ rc < MAX_RETRIES

\* Mutant of ShouldRetry: one retry too many.
ShouldRetryInclusive(status, rc) == status = 429 /\ rc <= MAX_RETRIES

\* response.status === 429 && retryCount < MAX_RETRIES
ShouldRetry(status, rc) == status = 429 /\ rc < MAX_RETRIES

\* null, as a string value
NullValue == "<null>"

\* settings.apiKey: nothing stored (null).
NullKey == [safeStorage |-> FALSE, data |-> NullValue]

\* settings.apiKey as it can be stored: nothing; the safeStorage format with
\* the ciphertext of a token, of the empty string, with bytes that do not
\* decrypt, or with no data; an object of the legacy format.
StoredKeys ==
    { NullKey,
      [safeStorage |-> TRUE, data |-> "enc(token)"],
      [safeStorage |-> TRUE, data |-> "enc()"],
      [safeStorage |-> TRUE, data |-> "garbage"],
      [safeStorage |-> TRUE, data |-> ""],
      [safeStorage |-> FALSE, data |-> "legacy"] }

KeyStates == [stored : StoredKeys, available : BOOLEAN]

NoKeyState == [stored |-> NullKey, available |-> TRUE]

\* safeStorage.decryptString(Buffer.from(data, 'base64')) (store.ts 190-191)
decryptString(data) ==
    CASE data = "enc(token)" -> [threw |-> FALSE, v |-> "token"]
      [] data = "enc()"      -> [threw |-> FALSE, v |-> ""]
      [] OTHER               -> [threw |-> TRUE, v |-> NullValue]

\* Mutant of decryptApiKey: what does not decrypt is used as it is.
decryptApiKeyRaw(encryptedObj, available) ==
    IF encryptedObj = NullKey THEN NullValue
    ELSE IF ~available \/ decryptString(encryptedObj.data).threw
         THEN encryptedObj.data
         ELSE decryptString(encryptedObj.data).v

\* Store.decryptApiKey (store.ts 182-198)
decryptApiKey(encryptedObj, available) ==
    IF encryptedObj = NullKey THEN NullValue
    ELSE IF encryptedObj.safeStorage /\ encryptedObj.data # ""
         THEN IF ~available THEN NullValue
              ELSE LET r == decryptString(encryptedObj.data) IN
                   IF r.threw THEN NullValue ELSE r.v
         ELSE NullValue

\* The getApiKey closure (main.js 502-505)
getApiKey(ks) ==
    IF ks.stored # NullKey THEN decryptApiKey(ks.stored, ks.available) ELSE NullValue

\* !apiKey (asana-api.js 22)
NoApiKey(apiKey) == apiKey = NullValue \/ apiKey = ""

\* verifyApiKey has returned nothing (yet).
NoResult == [valid |-> FALSE, detail |-> "<none>"]

\* Mutant of VerifyOutcome: no try/catch around the call.
VerifyOutcomeUncaught(ended, err, hasData) ==
    IF ended = "returned" /\ hasData
    THEN [pc |-> "returned", result |-> [valid |-> TRUE, detail |-> "user"]]
    ELSE [pc |-> "threw", result |-> NoResult]

\* verifyApiKey (asana-api.js 73-80) once its _fetch('/users/me') has ended
\* ("returned" | "threw", with error err); hasData: the JSON returned is an
\* object (reading .data of null throws, inside the try).
VerifyOutcome(ended, err, hasData) ==
    IF ended = "returned" /\ hasData
    THEN [pc |-> "returned", result |-> [valid |-> TRUE, detail |-> "user"]]
    ELSE [pc |-> "returned",
          result |-> [valid |-> FALSE,
                      detail |-> IF ended = "returned" THEN "type" ELSE err]]

MaxHeaderLen == 4   \* longest Retry-After header text

HeaderChars == {"0", "1", "2", "9", "-", "x"}
RetryAfterHeaders == SeqUpTo(HeaderChars, MaxHeaderLen) \cup {NoHeader}
Statuses == {200, 429, 500}

(***************************************************************************)
(* JavaScript values and their JSON text (store.ts 165, 207).  A value is  *)
(* null, a boolean, a non-negative integer (its decimal digits), a string  *)
(* or an array of strings; JSON text is a sequence of characters.          *)
(***************************************************************************)
JsNull    == [t |-> "null", s |-> <<>>, a |-> <<>>]
JsBool(b) == [t |-> "bool", s |-> IF b THEN <<"t">> ELSE <<"f">>, a |-> <<>>]
JsNum(ds) == [t |-> "num", s |-> ds, a |-> <<>>]
JsStr(cs) == [t |-> "str", s |-> cs, a |-> <<>>]
JsArr(xs) == [t |-> "arr", s |-> <<>>, a |-> xs]

QUOTE == "\""
BACKSLASH == "\\"

\* A string between double quotes, its quotes and backslashes escaped.
RECURSIVE Escape(_)
Escape(cs) ==
    IF cs = <<>> THEN <<>>
    ELSE (IF Head(cs) \in {QUOTE, BACKSLASH} THEN <<BACKSLASH, Head(cs)>>
          ELSE <<Head(cs)>>) \o Escape(Tail(cs))

Quoted(cs) == <<QUOTE>> \o Escape(cs) \o <<QUOTE>>

RECURSIVE JoinQuoted(_)
JoinQuoted(xs) ==
    IF xs = <<>> THEN <<>>
    ELSE IF Len(xs) = 1 THEN Quoted(xs[1])
    ELSE Quoted(Head(xs)) \o <<",">> \o JoinQuoted(Tail(xs))

\* JSON.stringify(value)
JSONstringify(v) ==
    CASE v.t = "null" -> <<"n", "u", "l", "l">>
      [] v.t = "bool" -> IF v.s = <<"t">> THEN <<"t", "r", "u", "e">>
                         ELSE <<"f", "a", "l", "s", "e">>
      [] v.t = "num"  -> v.s
      [] v.t = "str"  -> Quoted(v.s)
      [] v.t = "arr"  -> <<"[">> \o JoinQuoted(v.a) \o <<"]">>

ScanFail == [ok |-> FALSE, s |-> <<>>, next |-> 0]

\* Reads a string literal of text t from position i, just after its opening
\* quote: the characters read and the position after the closing quote.
RECURSIVE ScanString(_, _, _)
ScanString(t, i, acc) ==
    IF i > Len(t) THEN ScanFail
    ELSE IF t[i] = QUOTE THEN [ok |-> TRUE, s |-> acc, next |-> i + 1]
    ELSE IF t[i] = BACKSLASH
         THEN IF i + 1 <= Len(t) /\ t[i + 1] \in {QUOTE, BACKSLASH}
              THEN ScanString(t, i + 2, Append(acc, t[i + 1]))
              ELSE ScanFail
    ELSE ScanString(t, i + 1, Append(acc, t[i]))

ParseFail == [ok |-> FALSE, v |-> JsNull]

\* Reads the elements of an array of strings from position i of text t.
RECURSIVE ParseElements(_, _, _)
ParseElements(t, i, acc) ==
    IF i > Len(t) \/ t[i] # QUOTE THEN ParseFail
    ELSE LET r == ScanString(t, i + 1, <<>>) IN
         IF ~r.ok \/ r.next > Len(t) THEN ParseFail
         ELSE IF t[r.next] = "," THEN ParseElements(t, r.next + 1, Append(acc, r.s))
         ELSE IF t[r.next] = "]" /\ r.next = Len(t)
              THEN [ok |-> TRUE, v |-> JsArr(Append(acc, r.s))]
         ELSE ParseFail

\* JSON.parse(text): ok and the value, or not ok (a SyntaxError).
JSONparse(t) ==
    IF t = <<"n", "u", "l", "l">> THEN [ok |-> TRUE, v |-> JsNull]
    ELSE IF t = <<"t", "r", "u", "e">> THEN [ok |-> TRUE, v |-> JsBool(TRUE)]
    ELSE IF t = <<"f", "a", "l", "s", "e">> THEN [ok |-> TRUE, v |-> JsBool(FALSE)]
    ELSE IF t = <<>> THEN ParseFail
    ELSE IF \A i \in 1..Len(t) : t[i] \in Digits
         THEN IF Len(t) > 1 /\ t[1] = "0" THEN ParseFail
              ELSE [ok |-> TRUE, v |-> JsNum(t)]
    ELSE IF t[1] = QUOTE
         THEN LET r == ScanString(t, 2, <<>>) IN
              IF r.ok /\ r.next = Len(t) + 1 THEN [ok |-> TRUE, v |-> JsStr(r.s)]
              ELSE ParseFail
    ELSE IF t = <<"[", "]">> THEN [ok |-> TRUE, v |-> JsArr(<<>>)]
    ELSE IF t[1] = "[" THEN ParseElements(t, 2, <<>>)
    ELSE ParseFail

(***************************************************************************)
(* Store settings (store.ts 162-168, 202-218)                              *)
(***************************************************************************)
SettingKeys == {"a", "b"}

\* No row for the key in table settings.
NoRow == <<"<no row>">>
NoRows == [k \in SettingKeys |-> NoRow]

\* getSettings() of an empty table: {}.
NoSettings == [k \in {} |-> JsNull]

\* An argument of setSettings that is falsy or not an object.
NullUpdates == [k \in {"<null>"} |-> JsNull]

\* getSettings (202-213): every row, its value parsed, or kept as the raw
\* text when it is not JSON.
getSettings(rows) ==
    [k \in {x \in SettingKeys : rows[x] # NoRow} |->
        LET r == JSONparse(rows[k]) IN IF r.ok THEN r.v ELSE JsStr(rows[k])]

\* Mutant of RowsAfter: the table is rewritten from the updates alone.
RowsAfterReplacing(rows, updates) ==
    [k \in SettingKeys |->
        IF k \in DOMAIN updates THEN JSONstringify(updates[k]) ELSE NoRow]

\* The loop of 164-166 when it runs to its end: INSERT OR REPLACE of every
\* entry.
RowsAfter(rows, updates) ==
    [k \in SettingKeys |->
        IF k \in DOMAIN updates THEN JSONstringify(updates[k]) ELSE rows[k]]

\* Object.entries(updates): the keys in the order the object holds them.
EntryOrders(updates) ==
    {o \in SeqUpTo(DOMAIN updates, Cardinality(DOMAIN updates)) :
        Range(o) = DOMAIN updates /\ Len(o) = Cardinality(DOMAIN updates)}

\* The loop of 164-166 when the write of entry number failAt throws
\* (JSON.stringify or the statement): the entries before it are written.
RowsWrittenBefore(rows, updates, order, failAt) ==
    [k \in SettingKeys |->
        IF \E j \in 1..(failAt - 1) : order[j] = k
        THEN JSONstringify(updates[k]) ELSE rows[k]]

\* Mutant of _setManySettings: the loop runs outside a transaction.
SetManyUnwrapped(rows, updates, order, failAt) ==
    IF failAt = 0 THEN RowsAfter(rows, updates)
    ELSE RowsWrittenBefore(rows, updates, order, failAt)

\* _setManySettings (163-167): this._db.transaction(...) commits when the
\* loop ends and rolls back when it throws.
_setManySettings(rows, updates, order, failAt) ==
    IF failAt = 0 THEN RowsAfter(rows, updates) ELSE rows

(***************************************************************************)
(* Files of the Store (store.ts 14-15).  A file is absent, a healthy       *)
(* database holding some data, a file that is not a database at all        *)
(* ("garbage": every statement on it throws), or a database whose pages    *)
(* are damaged ("damaged": the quick_check does not answer 'ok').          *)
(***************************************************************************)
Absent == [kind |-> "absent", data |-> "none"]
Garbage == [kind |-> "garbage", data |-> "none"]
Healthy(d) == [kind |-> "db", data |-> d]
Damaged(d) == [kind |-> "damaged", data |-> d]
\* The database new Database(path) creates when there is no file.
EmptyDb == Healthy("empty")

\* The idle values of the variables of a part that a specification does not use.
(***************************************************************************)
(* _fetchAll (asana-api.js 52-69) and the URLs it builds                   *)
(***************************************************************************)
PageLimit == <<"1", "0", "0">>   \* asana-api.js 56: const limit = 100

\* result.next_page is null or carries no offset.
NoCursor == <<"<null>">>

\* A query parameter the URL does not carry.
NoParam == <<"<absent>">>

\* Index of the first c in s, 0 if there is none.
IndexOf(s, c) ==
    IF \E i \in 1..Len(s) : s[i] = c
    THEN CHOOSE i \in 1..Len(s) : s[i] = c /\ \A j \in 1..(i - 1) : s[j] # c
    ELSE 0

\* s.split(c)
RECURSIVE Split(_, _)
Split(s, c) ==
    LET i == IndexOf(s, c) IN
    IF i = 0 THEN <<s>>
    ELSE <<SubSeq(s, 1, i - 1)>> \o Split(SubSeq(s, i + 1, Len(s)), c)

StartsWith(s, p) == Len(p) <= Len(s) /\ SubSeq(s, 1, Len(p)) = p

\* What the remote reads as parameter `name` of the URL: the text after
\* "name=" in the first such part of the query (the text after the first "?",
\* cut at every "&").
QueryParam(url, name) ==
    LET q     == IndexOf(url, "?")
        parts == IF q = 0 THEN <<>> ELSE Split(SubSeq(url, q + 1, Len(url)), "&")
        key   == name \o <<"=">>
        IsIt(part) == StartsWith(part, key)
        hits  == SelectSeq(parts, IsIt)
    IN IF hits = <<>> THEN NoParam
       ELSE SubSeq(hits[1], Len(key) + 1, Len(hits[1]))

OffsetName == <<"o", "f", "f", "s", "e", "t">>
LimitName == <<"l", "i", "m", "i", "t">>

\* const separator = endpoint.includes('?') ? '&' : '?' (55)
Separator(ep) == IF includes(ep, <<"?">>) THEN <<"&">> ELSE <<"?">>

\* Mutant of PageUrl: the cursor is left out of the URL.
PageUrlWithoutOffset(ep, cursor) ==
    ep \o Separator(ep) \o LimitName \o <<"=">> \o PageLimit

\* const pageUrl = nextPage ? `...offset=${nextPage}&limit=${limit}`
\*                          : `...limit=${limit}` (59-61)
PageUrl(ep, cursor) ==
    IF cursor # NoCursor /\ cursor # <<>>
    THEN ep \o Separator(ep) \o OffsetName \o <<"=">> \o cursor
            \o <<"&">> \o LimitName \o <<"=">> \o PageLimit
    ELSE ep \o Separator(ep) \o LimitName \o <<"=">> \o PageLimit

\* The page of the source a request for url is answered with: the first one
\* without an offset, else the one after the page that carried the offset as
\* its cursor; 0 if the offset is none of the cursors (the remote refuses).
PageServed(src, url) ==
    LET off == QueryParam(url, OffsetName) IN
    IF off = NoParam THEN 1
    ELSE IF \E i \in 1..(Len(src) - 1) : src[i].cursor = off
         THEN 1 + CHOOSE i \in 1..(Len(src) - 1) : src[i].cursor = off
         ELSE 0

(***************************************************************************)
(* The open Store: setters, WAL and flush (store.ts 114, 200-290)          *)
(***************************************************************************)
SeenGids == {"1", "2"}
CacheKeys == {"tasks", "projects", "users"}

\* No row for the key in table cache or seen_timestamps.
Missing == "<no row>"

\* A database: table settings (key "a" only), table cache, table
\* seen_timestamps.
EmptyTables ==
    [ settings |-> NoRow, cache |-> [k \in CacheKeys |-> Missing],
      seen |-> [g \in SeenGids |-> Missing] ]

\* The statements the setters run, as the write-ahead log records them.
Write(op, key, value) == [op |-> op, key |-> key, value |-> value]

\* Mutant of ApplyWrite: setSeen replaces the table by the one row.
ApplyWriteSeenAlone(db, w) ==
    CASE w.op = "setSetting" -> [db EXCEPT !.settings = w.value]
      [] w.op = "setCache"   -> [db EXCEPT !.cache[w.key] = w.value]
      [] w.op = "setSeen"    ->
            [db EXCEPT !.seen = [g \in SeenGids |-> IF g = w.key THEN w.value ELSE Missing]]

\* INSERT OR REPLACE of one row (store.ts 155, 157, 159).
ApplyWrite(db, w) ==
    CASE w.op = "setSetting" -> [db EXCEPT !.settings = w.value]
      [] w.op = "setCache"   -> [db EXCEPT !.cache[w.key] = w.value]
      [] w.op = "setSeen"    -> [db EXCEPT !.seen[w.key] = w.value]

\* The database a connection reads: the file with the log applied.
RECURSIVE Replay(_, _)
Replay(db, wal) ==
    IF wal = <<>> THEN db ELSE Replay(ApplyWrite(db, Head(wal)), Tail(wal))

\* Mutant of Checkpoint: the log is truncated, its writes are not copied.
CheckpointDropsLog(db, wal) == [file |-> db, wal |-> <<>>]

\* wal_checkpoint(TRUNCATE) (285): the log is copied into the database file
\* and truncated.
Checkpoint(db, wal) == [file |-> Replay(db, wal), wal |-> <<>>]

\* The store calls of the model: [op, key, value].  A setSeenTimestamp with
\* an empty gid or timestamp, the setters of the three cache rows, a
\* setSettings of one key.
StoreCalls ==
    {Write("setSeen", g, t) : g \in SeenGids \cup {""}, t \in {"", "t1", "t2"}}
      \cup {Write("setCache", k, d) : k \in CacheKeys, d \in {"[]", "[1]"}}
      \cup {Write("setSetting", "a", v) : v \in {<<"1">>, <<"2">>}}

\* The call returns without running a statement (276).
IsNoOp(c) == c.op = "setSeen" /\ (c.key = "" \/ c.value = "")

NoCall == [op |-> "none", key |-> "", value |-> "", threw |-> FALSE]

StoreApiOff ==
    /\ stpc = "off" /\ dbFile = EmptyTables /\ walFile = <<>> /\ made = EmptyTables
    /\ lastCall = NoCall /\ calls = 0 /\ checkpointed = FALSE

FetchAllOff ==
    /\ apc = "off" /\ endpoint = <<>> /\ source = <<>> /\ allData = <<>>
    /\ nextPage = NoCursor /\ pageUrls = <<>>

\* No await is being served.
NoAwait == [cycle |-> 0, pc |-> "none", n |-> 0]

LiveOff == awaited = NoAwait

\* The later parts are idle.
MoreOff == FetchAllOff /\ StoreApiOff /\ LiveOff

FilterOff ==
    /\ items = <<>> /\ includePatterns = <<>> /\ gidList = <<>>
    /\ excludePatterns = <<>> /\ filtered = <<>> /\ fpc = "off"

FetchOff ==
    /\ hpc = "off" /\ retryCount = 0 /\ requests = 0 /\ responses = <<>>
    /\ retryAfterHeader = NoHeader /\ waitMs = Num(0) /\ delay = 0
    /\ fetchError = "none" /\ keyState = NoKeyState
    /\ caller = "_fetch" /\ vpc = "off" /\ verifyResult = NoResult

CtorOff ==
    /\ primary = Absent /\ backup = Absent /\ primary0 = Absent /\ backup0 = Absent
    /\ cpc = "off" /\ dbHandle = "none" /\ fsFault = FALSE

(***************************************************************************)
(* Sync engine data (asana-api.js 149-214, constants.ts 39-62)             *)
(***************************************************************************)
\* null: no current user, no assignee.
None == "<none>"
\* this._pollTimer === null
NoTimer == 0

\* The settings the engine reads (DEFAULT_SETTINGS, constants.ts 39-62).
DefaultSettings ==
    [ apiKeyVerified |-> FALSE, showOnlyMyTasks |-> FALSE, currentUserId |-> None,
      selectedUserIds |-> <<>>,
      excludedTaskGids |-> <<>>, excludedTaskPatterns |-> <<>>,
      includedTaskPatterns |-> <<>>,
      excludedProjectGids |-> <<>>, excludedProjectPatterns |-> <<>>,
      includedProjectPatterns |-> <<>> ]

\* this._store.getSettings() before any cycle ran and no engine exists.
EngineOff ==
    /\ settings = DefaultSettings
    /\ cachedTasks = <<>> /\ cachedProjects = <<>> /\ cachedUsers = <<>>
    /\ tasksWriter = 0 /\ projectsWriter = 0
    /\ _pollTimer = NoTimer /\ liveTimers = {} /\ _onUpdate = FALSE /\ cycles = <<>>
    /\ cycleCap = 0 /\ taskCap = 0

SettingsOff ==
    /\ settingsRows = NoRows /\ lastUpdates = NullUpdates /\ before = NoSettings
    /\ spc = "off" /\ entryOrder = <<>> /\ failedAt = 0

FetchInit ==
    /\ FilterOff /\ CtorOff /\ SettingsOff /\ EngineOff /\ MoreOff
    /\ hpc = "idle" /\ retryCount = 0 /\ requests = 0 /\ responses = <<>>
    /\ retryAfterHeader = NoHeader /\ waitMs = Num(0) /\ delay = 0
    /\ fetchError = "none" /\ keyState = NoKeyState
    /\ caller = "_fetch" /\ vpc = "off" /\ verifyResult = NoResult

\* Lines 21-31 of one invocation: read the key, then issue the request.
Invoke(rc) ==
    /\ retryCount' = rc
    /\ \E ks \in KeyStates :
          /\ keyState' = ks
          /\ IF NoApiKey(getApiKey(ks))
             THEN /\ hpc' = "threw" /\ fetchError' = "nokey"
                  /\ UNCHANGED requests
             ELSE /\ hpc' = "inflight" /\ requests' = requests + 1
                  /\ UNCHANGED fetchError

\* _fetch(endpoint, options) is called, by verifyApiKey (75) or by another
\* caller.
FetchCall ==
    /\ hpc = "idle"
    /\ Invoke(0)
    /\ \E by \in {"_fetch", "verifyApiKey"} :
          /\ caller' = by
          /\ vpc' = IF by = "verifyApiKey" THEN "pending" ELSE "off"
    /\ UNCHANGED <<responses, retryAfterHeader, waitMs, delay, verifyResult>>
    /\ UNCHANGED <<filterVars, ctorVars, settingsVars, engineVars, moreVars>>

\* fetch() resolves with a response (lines 31-48).
FetchResponse ==
    /\ hpc = "inflight"
    /\ \E status \in Statuses :
          /\ responses' = Append(responses, status)
          /\ IF ShouldRetry(status, retryCount)
             THEN \E h \in RetryAfterHeaders :
                    /\ retryAfterHeader' = h
                    /\ waitMs' = WaitMs(h)
                    /\ delay' = TimerDelay(WaitMs(h))
                    /\ hpc' = "backoff"
                    /\ UNCHANGED fetchError
             ELSE /\ IF ~ResponseOk(status)
                     THEN hpc' = "threw" /\ fetchError' = "http"
                     ELSE \E bodyIsJson \in BOOLEAN :
                            IF bodyIsJson
                            THEN hpc' = "returned" /\ UNCHANGED fetchError
                            ELSE hpc' = "threw" /\ fetchError' = "json"
                  /\ UNCHANGED <<retryAfterHeader, waitMs, delay>>
    /\ UNCHANGED <<retryCount, requests, keyState, caller, vpc, verifyResult>>
    /\ UNCHANGED <<filterVars, ctorVars, settingsVars, engineVars, moreVars>>

\* fetch() rejects (network failure): the rejection leaves _fetch.
FetchNetworkError ==
    /\ hpc = "inflight"
    /\ hpc' = "threw" /\ fetchError' = "network"
    /\ UNCHANGED <<retryCount, requests, responses, retryAfterHeader, waitMs, delay,
                   keyState, caller, vpc, verifyResult>>
    /\ UNCHANGED <<filterVars, ctorVars, settingsVars, engineVars, moreVars>>

\* Mutant of RetryCountAfter: the retry is made with the same count.
RetryCountKept(rc) == rc

\* The retryCount argument of the retry: retryCount + 1 (39)
RetryCountAfter(rc) == rc + 1

\* The backoff timer fires: return this._fetch(endpoint, options, retryCount + 1)
\* (retryAfter and waitMs are locals of the invocation that ends here).
BackoffElapsed ==
    /\ hpc = "backoff"
    /\ Invoke(RetryCountAfter(retryCount))
    /\ retryAfterHeader' = NoHeader /\ waitMs' = Num(0) /\ delay' = 0
    /\ UNCHANGED <<responses, caller, vpc, verifyResult>>
    /\ UNCHANGED <<filterVars, ctorVars, settingsVars, engineVars, moreVars>>

\* The await of verifyApiKey (75) settles: lines 76-79.
VerifySettles ==
    /\ vpc = "pending" /\ hpc \in {"returned", "threw"}
    /\ \E hasData \in BOOLEAN :
          LET out == VerifyOutcome(hpc, fetchError, hasData) IN
          /\ vpc' = out.pc
          /\ verifyResult' = out.result
    /\ UNCHANGED <<hpc, retryCount, requests, responses, retryAfterHeader, waitMs,
                   delay, fetchError, keyState, caller>>
    /\ UNCHANGED <<filterVars, ctorVars, settingsVars, engineVars, moreVars>>

FetchNext ==
    FetchCall \/ FetchResponse \/ FetchNetworkError \/ BackoffElapsed \/ VerifySettles

SpecFetch == FetchInit /\ [][FetchNext]_vars

(***************************************************************************)
(* _fetchAll specification.                                                *)
(***************************************************************************)
MaxPages == 3    \* pages of the source

\* Endpoints as getUsers/getTasks/getProjects build them (with a query) and
\* one without a query.
Endpoints == { <<"/", "u">>, <<"/", "t", "?", "f", "=", "n">> }

\* Offset tokens of the remote: opaque URL-safe text.
Cursors == { <<"e", "y", "J">>, <<"e", "y", "K", ".", "a">>, <<"Q", "_", "-">> }

PageData == { <<>>, <<"r1">>, <<"r2", "r3">> }

\* The sources: up to MaxPages pages, the last one without a cursor, the
\* cursors all different.
Sources ==
    {src \in SeqUpTo([data : PageData, cursor : Cursors \cup {NoCursor}], MaxPages) :
        /\ Len(src) >= 1 /\ src[Len(src)].cursor = NoCursor
        /\ \A i, j \in 1..Len(src) :
              (i # j /\ src[i].cursor # NoCursor) => src[i].cursor # src[j].cursor}

FetchAllInit ==
    /\ FilterOff /\ FetchOff /\ CtorOff /\ SettingsOff /\ EngineOff /\ StoreApiOff
    /\ LiveOff
    /\ apc = "idle" /\ endpoint \in Endpoints /\ source \in Sources
    /\ allData = <<>> /\ nextPage = NoCursor /\ pageUrls = <<>>

fetchAllFrame == <<filterVars, fetchVars, ctorVars, settingsVars, engineVars, storeApiVars,
                   liveVars>>

\* _fetchAll(endpoint) is called: lines 53-63, up to the first await.
FetchAllCall ==
    /\ apc = "idle"
    /\ apc' = "inflight"
    /\ pageUrls' = <<PageUrl(endpoint, NoCursor)>>
    /\ UNCHANGED <<endpoint, source, allData, nextPage, fetchAllFrame>>

\* this._fetch(pageUrl) returns a page (63-66): accumulate, then either
\* request the next page or return.
PageReply ==
    /\ apc = "inflight"
    /\ LET n == PageServed(source, pageUrls[Len(pageUrls)]) IN
       /\ n # 0
       /\ allData' = allData \o source[n].data
       /\ nextPage' = source[n].cursor
       /\ IF source[n].cursor # NoCursor
          THEN /\ Len(pageUrls) < MaxPages + 1
               /\ pageUrls' = Append(pageUrls, PageUrl(endpoint, source[n].cursor))
               /\ UNCHANGED apc
          ELSE /\ apc' = "returned"
               /\ UNCHANGED pageUrls
    /\ UNCHANGED <<endpoint, source, fetchAllFrame>>

\* this._fetch(pageUrl) throws (no key, a failed request, a refused
\* offset): the rejection leaves _fetchAll, the pages so far are dropped.
PageThrows ==
    /\ apc = "inflight"
    /\ apc' = "threw"
    /\ UNCHANGED <<endpoint, source, allData, nextPage, pageUrls, fetchAllFrame>>

FetchAllNext == FetchAllCall \/ PageReply \/ PageThrows

SpecFetchAll == FetchAllInit /\ [][FetchAllNext]_vars

(***************************************************************************)
(* Store specification: the setters, the log and flush.                    *)
(***************************************************************************)
MaxCalls == 3    \* store calls of a run

StoreInit ==
    /\ FilterOff /\ FetchOff /\ CtorOff /\ SettingsOff /\ EngineOff /\ FetchAllOff
    /\ LiveOff
    /\ stpc = "open" /\ dbFile = EmptyTables /\ walFile = <<>> /\ made = EmptyTables
    /\ lastCall = NoCall /\ calls = 0 /\ checkpointed = FALSE

storeApiFrame == <<filterVars, fetchVars, ctorVars, settingsVars, engineVars, fetchAllVars,
                   liveVars>>

\* setSettings / setCachedTasks / setCachedProjects / setCachedUsers /
\* setSeenTimestamp (215-278): the statement commits to the log, or throws
\* and changes nothing; SQLite may checkpoint the log on a commit.
StoreCall ==
    /\ stpc \in {"open", "flushed"} /\ calls < MaxCalls
    /\ calls' = calls + 1 /\ stpc' = "open" /\ checkpointed' = FALSE
    /\ \E c \in StoreCalls, throws \in BOOLEAN, auto \in BOOLEAN :
          /\ lastCall' = [op |-> c.op, key |-> c.key, value |-> c.value,
                          threw |-> throws /\ ~IsNoOp(c)]
          /\ IF IsNoOp(c) \/ throws
             THEN UNCHANGED <<dbFile, walFile, made>>
             ELSE /\ made' = ApplyWrite(made, c)
                  /\ IF auto
                     THEN /\ dbFile' = Replay(dbFile, Append(walFile, c))
                          /\ walFile' = <<>>
                     ELSE /\ walFile' = Append(walFile, c)
                          /\ UNCHANGED dbFile
    /\ UNCHANGED storeApiFrame

\* flush() (282-290): the checkpoint, or its failure caught and logged.
Flush ==
    /\ stpc \in {"open", "flushed"}
    /\ stpc' = "flushed"
    /\ lastCall' = [NoCall EXCEPT !.op = "flush"]
    /\ \E ok \in BOOLEAN :
          /\ checkpointed' = ok
          /\ IF ok
             THEN /\ dbFile' = Checkpoint(dbFile, walFile).file
                  /\ walFile' = Checkpoint(dbFile, walFile).wal
             ELSE UNCHANGED <<dbFile, walFile>>
    /\ UNCHANGED <<made, calls, storeApiFrame>>

StoreNext == StoreCall \/ Flush

SpecStore == StoreInit /\ [][StoreNext]_vars

(***************************************************************************)
(* Store constructor (store.ts 53-168)                                     *)
(***************************************************************************)
PrimaryFiles == {Absent, Healthy("D1"), EmptyDb, Garbage, Damaged("D1")}
BackupFiles  == {Absent, Healthy("D1"), Healthy("D2"), Garbage, Damaged("D2")}

CtorInit ==
    /\ FilterOff /\ FetchOff /\ SettingsOff /\ EngineOff /\ MoreOff
    /\ primary \in PrimaryFiles /\ backup \in BackupFiles
    /\ primary0 = primary /\ backup0 = backup
    /\ cpc = "backup" /\ dbHandle = "none" /\ fsFault = FALSE

\* new Database(path) on file f: "ok" or "throws".  An absent file is
\* created; a file that is not a database is either refused at once or
\* accepted until the first statement reads it.
OpenOutcomes(f) == IF f.kind = "garbage" THEN {"ok", "throws"} ELSE {"ok"}

\* The file after new Database(path) has succeeded on it.
Opened(f) == IF f.kind = "absent" THEN EmptyDb ELSE f

\* db.pragma('quick_check', { simple: true }) answers 'ok'.
QuickCheckOk(f) == f.kind = "db"

\* A statement that reads the database file: "ok" or "throws".
StatementOutcomes(f) ==
    CASE f.kind = "db"      -> {"ok"}
      [] f.kind = "garbage" -> {"throws"}
      [] f.kind = "damaged" -> {"ok", "throws"}
      [] OTHER              -> {"throws"}

\* _backup (69-77): copy the primary over the backup; a failure is logged.
CtorBackup ==
    /\ cpc = "backup"
    /\ IF primary.kind # "absent"
       THEN \E copied \in BOOLEAN :
              IF copied THEN backup' = primary /\ UNCHANGED fsFault
                        ELSE fsFault' = TRUE /\ UNCHANGED backup
       ELSE UNCHANGED <<backup, fsFault>>
    /\ cpc' = "open"
    /\ UNCHANGED <<primary, primary0, backup0, dbHandle>>
    /\ UNCHANGED <<filterVars, fetchVars, settingsVars, engineVars, moreVars>>

\* _openDatabase, the try block (81-87): open and check integrity.
CtorOpen ==
    /\ cpc = "open"
    /\ \E o \in OpenOutcomes(primary) :
          IF o = "ok" /\ QuickCheckOk(Opened(primary))
          THEN /\ primary' = Opened(primary)
               /\ dbHandle' = "open"
               /\ cpc' = "pragmas"
          ELSE \* the catch closes the handle, if any
               /\ primary' = primary
               /\ dbHandle' = "none"
               /\ cpc' = "recover"
    /\ UNCHANGED <<backup, primary0, backup0, fsFault>>
    /\ UNCHANGED <<filterVars, fetchVars, settingsVars, engineVars, moreVars>>

\* The last resort (103-104, 108-109): unlink the file and open a new one.
StartFresh ==
    /\ primary' = EmptyDb
    /\ dbHandle' = "open"

\* _openDatabase, the catch block (88-111): restore the backup or start fresh.
CtorRecover ==
    /\ cpc = "recover"
    /\ IF backup.kind # "absent"
       THEN \E copied \in BOOLEAN :
              IF copied
              THEN /\ UNCHANGED fsFault
                   /\ \E o \in OpenOutcomes(backup) :
                         IF o = "ok"
                         THEN primary' = backup /\ dbHandle' = "open"
                         ELSE StartFresh
              ELSE fsFault' = TRUE /\ StartFresh
       ELSE StartFresh /\ UNCHANGED fsFault
    /\ cpc' = "pragmas"
    /\ UNCHANGED <<backup, primary0, backup0>>
    /\ UNCHANGED <<filterVars, fetchVars, settingsVars, engineVars, moreVars>>

\* A statement of the constructor outside any try block: on a throw the
\* constructor throws.
CtorStatement(from, to) ==
    /\ cpc = from
    /\ \E o \in StatementOutcomes(primary) :
          cpc' = IF o = "ok" THEN to ELSE "thrown"
    /\ UNCHANGED <<primary, backup, primary0, backup0, dbHandle, fsFault>>
    /\ UNCHANGED <<filterVars, fetchVars, settingsVars, engineVars, moreVars>>

\* db.pragma('journal_mode = WAL'), db.pragma('foreign_keys = ON') (114-115)
CtorPragmas == CtorStatement("pragmas", "schema")

\* _initSchema (120-149)
CtorInitSchema == CtorStatement("schema", "prepare")

\* _prepareStatements (151-168)
CtorPrepare == CtorStatement("prepare", "done")

CtorNext ==
    \/ CtorBackup \/ CtorOpen \/ CtorRecover
    \/ CtorPragmas \/ CtorInitSchema \/ CtorPrepare

SpecCtor == CtorInit /\ [][CtorNext]_vars

(***************************************************************************)
(* Sync engine: polling and _poll (asana-api.js 119-214)                   *)
(***************************************************************************)
MaxCycles == 2    \* _poll() invocations of a run (replies without tasks)
MaxTasks == 2     \* tasks of one remote reply in a run of one invocation

Task(g, a, n) == [gid |-> g, assignee |-> a, name |-> n]
Project(g, n) == [gid |-> g, name |-> n]

\* Task records the remote search may return: the same gid can come back
\* with different assignees (the task was reassigned between two requests), a
\* task can have no assignee, or an assignee nobody asked for.
RemoteTasks ==
    { Task("1", "U1", LaunchPlan), Task("1", "U2", LaunchPlan),
      Task("1", "U3", LaunchPlan), Task("2", "U2", Other), Task("2", None, Other) }

TaskReplies == SeqUpTo(RemoteTasks, taskCap)

ProjectReplies ==
    { <<>>, <<Project("7", Other)>>,
      <<Project("1", LaunchPlan), Project("7", Other)>> }

UserReplies == { <<>>, <<"U1", "U2">> }

PollIntervals == {1, 5}

Verified == [DefaultSettings EXCEPT !.apiKeyVerified = TRUE]

\* The settings snapshots of the runs: not verified; single-user; show-only-
\* mine without a current user (so: the selection); a selection; no user
\* filter, with name filters.
SettingsProfiles ==
    { DefaultSettings,
      [Verified EXCEPT !.showOnlyMyTasks = TRUE, !.currentUserId = "U1"],
      [Verified EXCEPT !.showOnlyMyTasks = TRUE, !.selectedUserIds = <<"U1", "U2">>,
                       !.excludedTaskGids = <<"2">>],
      [Verified EXCEPT !.selectedUserIds = <<"U2", "U1">>],
      [Verified EXCEPT !.includedTaskPatterns = << <<"l","a","u","n","c","h">> >>,
                       !.excludedProjectPatterns = << <<"O","t","h","e","r">> >>] }

\* Mutant of Mode: showOnlyMyTasks alone selects the single-user branch.
ModeIgnoringCurrentUser(st) ==
    IF st.showOnlyMyTasks THEN "single"
    ELSE IF Len(st.selectedUserIds) > 0 THEN "multi"
    ELSE "all"

\* const assigneeParam = assigneeGid ? `&assignee=${assigneeGid}` : '' (93)
AssigneeParam(assigneeGid) ==
    IF assigneeGid # None THEN <<"&assignee=", assigneeGid>> ELSE <<>>

\* The branch of lines 168-191 a settings snapshot selects.
Mode(st) ==
    IF st.showOnlyMyTasks /\ st.currentUserId # None THEN "single"
    ELSE IF Len(st.selectedUserIds) > 0 THEN "multi"
    ELSE "all"

\* Mutant of DirectlyAssigned: the reply of the search is trusted.
DirectlyAssignedUnchecked(t, uid) == TRUE

\* Mutant of DirectlyAssigned: a task without assignee passes.
DirectlyAssignedOrUnassigned(t, uid) == t.assignee = None \/ t.assignee = uid

\* t.assignee && t.assignee.gid === settings.currentUserId (171)
DirectlyAssigned(t, uid) == t.assignee # None /\ t.assignee = uid

RECURSIVE Flatten(_)
Flatten(sets) == IF sets = <<>> THEN <<>> ELSE Head(sets) \o Flatten(Tail(sets))

\* Mutant of ScanOrder: the result lists are scanned as they arrived.
ScanInArrivalOrder(sets, arrived) ==
    Flatten([j \in 1..Len(arrived) |-> sets[arrived[j]]])

\* for (const set of taskSets) for (const task of set): the lists in the
\* order of selectedUserIds (Promise.all keeps the order of its argument).
ScanOrder(sets, arrived) == Flatten(sets)

\* Lines 178-187 over the tasks still to scan.
RECURSIVE MergeLoop(_, _, _, _)
MergeLoop(rest, selectedSet, seen, acc) ==
    IF rest = <<>> THEN acc
    ELSE LET task == Head(rest) IN
         IF task.gid \notin seen /\ task.assignee # None /\ task.assignee \in selectedSet
         THEN MergeLoop(Tail(rest), selectedSet, seen \cup {task.gid}, Append(acc, task))
         ELSE MergeLoop(Tail(rest), selectedSet, seen, acc)

\* Lines 167-191 once every reply is there: the task list before the filters.
AssignedTasks(st, sets, arrived) ==
    CASE Mode(st) = "single" ->
           LET Mine(t) == DirectlyAssigned(t, st.currentUserId) IN SelectSeq(sets[1], Mine)
      [] Mode(st) = "multi" ->
           MergeLoop(ScanOrder(sets, arrived), Range(st.selectedUserIds), {}, <<>>)
      [] OTHER -> sets[1]

\* this._applyFilters(tasks, 'task', settings) (194)
FilterTasks(ts, st) ==
    _applyFilters(ts, st.includedTaskPatterns, st.excludedTaskGids, st.excludedTaskPatterns)

\* this._applyFilters(projects, 'project', settings) (198)
FilterProjects(ps, st) ==
    _applyFilters(ps, st.includedProjectPatterns, st.excludedProjectGids,
                  st.excludedProjectPatterns)

\* A _poll() invocation at its entry, with the settings it read (151).
NewCycle(st) ==
    [ pc |-> "start", settings |-> st, taskSets |-> <<>>, arrived |-> <<>>,
      merged |-> <<>>, tasks |-> <<>>, projects |-> <<>>,
      events |-> <<>>, result |-> "running", fetches |-> 0,
      asked |-> <<>>, usersFetched |-> FALSE, projectsFetched |-> FALSE,
      timerAtEnd |-> NoTimer,
      subscribed |-> FALSE,
      tasksAtStart |-> cachedTasks, projectsAtStart |-> cachedProjects,
      tasksAtEnd |-> <<>>, projectsAtEnd |-> <<>> ]

\* Mutant of Published: an early return reports an error.
PublishedAlways(res, sub) == IF sub THEN <<IF res = "updated" THEN res ELSE "error">> ELSE <<>>

\* if (this._onUpdate) this._onUpdate(...) at 205-207 and 210-212; the early
\* returns (152, 156) call nothing.
Published(res, sub) == IF sub /\ res \in {"updated", "error"} THEN <<res>> ELSE <<>>

\* The invocation ends with result res, the cache then being (ts, ps).
Finish(c, res, ts, ps) ==
    [c EXCEPT !.pc = "done", !.result = res,
              !.events = @ \o Published(res, _onUpdate),
              !.subscribed = _onUpdate, !.timerAtEnd = _pollTimer,
              !.tasksAtEnd = ts, !.projectsAtEnd = ps]

\* The catch block (208-213).
Fail(c) == Finish(c, "error", cachedTasks, cachedProjects)

\* Mutant of Begin: the workspaces are asked for whatever apiKeyVerified is.
BeginUnchecked(st) == [NewCycle(st) EXCEPT !.pc = "workspaces", !.fetches = 1]

\* Lines 150-155: read the settings, return if not verified, else ask for
\* the workspaces.
Begin(st) ==
    IF ~st.apiKeyVerified
    THEN Finish(NewCycle(st), "skipped", cachedTasks, cachedProjects)
    ELSE [NewCycle(st) EXCEPT !.pc = "workspaces", !.fetches = 1]

\* Mutant of SettingsRead: the stored settings are read again at every use.
SettingsReadLive(c) == settings

\* The `settings` of an invocation: const settings = this._store.getSettings()
\* (151), read once.
SettingsRead(c) == c.settings

\* Lines 166-190: issue the task fetch(es) of the mode; asked holds the
\* assignee parameter of each getTasks call (93).
IssueTaskFetches(c) ==
    CASE Mode(SettingsRead(c)) = "multi" ->
           [c EXCEPT !.pc = "taskSets",
                     !.taskSets = [k \in 1..Len(SettingsRead(c).selectedUserIds) |-> <<>>],
                     !.asked = [k \in 1..Len(SettingsRead(c).selectedUserIds) |->
                                  AssigneeParam(SettingsRead(c).selectedUserIds[k])],
                     !.fetches = @ + Len(SettingsRead(c).selectedUserIds)]
      [] Mode(SettingsRead(c)) = "single" ->
           [c EXCEPT !.pc = "tasks", !.taskSets = << <<>> >>,
                     !.asked = <<AssigneeParam(SettingsRead(c).currentUserId)>>,
                     !.fetches = @ + 1]
      [] OTHER ->
           [c EXCEPT !.pc = "tasks", !.taskSets = << <<>> >>,
                     !.asked = <<AssigneeParam(None)>>, !.fetches = @ + 1]

\* Lines 167-197 once the task replies are there: merge, filter, ask for
\* the projects.
WithTasks(c, sets, arrived) ==
    LET assigned == AssignedTasks(SettingsRead(c), sets, arrived) IN
    [c EXCEPT !.taskSets = sets, !.arrived = arrived,
              !.merged = assigned,
              !.tasks = FilterTasks(assigned, SettingsRead(c)),
              !.pc = "projects", !.projectsFetched = TRUE, !.fetches = @ + 1]

\* The snapshot an earlier run left in the cache.
OldTasks == <<Task("2", "U3", Other)>>
OldProjects == <<Project("1", LaunchPlan)>>

EngineInit(cap, tcap) ==
    /\ FilterOff /\ FetchOff /\ CtorOff /\ SettingsOff /\ MoreOff
    /\ settings \in SettingsProfiles
    /\ cachedTasks = OldTasks /\ cachedProjects = OldProjects
    /\ cachedUsers \in UserReplies
    /\ tasksWriter = 0 /\ projectsWriter = 0
    /\ _pollTimer = NoTimer /\ liveTimers = {} /\ _onUpdate = FALSE /\ cycles = <<>>
    /\ cycleCap = cap /\ taskCap = tcap

otherVars == <<filterVars, fetchVars, ctorVars, settingsVars, moreVars>>
storeVars == <<cachedTasks, cachedProjects, cachedUsers, tasksWriter, projectsWriter>>

\* this._poll() is called: the invocation runs to its first await.
PollStarts ==
    /\ Len(cycles) < cycleCap
    /\ cycles' = Append(cycles, Begin(settings))

\* const intervalMs = intervalMinutes * 60 * 1000 (127)
IntervalMs(intervalMinutes) == intervalMinutes * 60 * 1000

\* The timer a setInterval of call `by` creates.
Timer(id, intervalMinutes, by) ==
    [id |-> id, minutes |-> intervalMinutes, ms |-> IntervalMs(intervalMinutes), by |-> by]

\* The id of a new timer: the first one no live timer has.
NewTimerId(live) ==
    CHOOSE i \in 1..(Cardinality(live) + 1) :
        /\ \A t \in live : t.id # i
        /\ \A j \in 1..(i - 1) : \E t \in live : t.id = j

\* Mutant of TimersAfterStop: the timer is not cleared.
TimersAfterStopLeaks(live, handle) == live

\* if (this._pollTimer) clearInterval(this._pollTimer) (132-133)
TimersAfterStop(live, handle) ==
    IF handle # NoTimer THEN {t \in live : t.id # handle} ELSE live

\* The body of startPolling after line 120: stopPolling(), this._poll(),
\* setInterval (121-128).
StartPollingBy(by) ==
    LET stopped == TimersAfterStop(liveTimers, _pollTimer)
        id      == NewTimerId(stopped)
    IN /\ PollStarts
       /\ _pollTimer' = id
       /\ \E intervalMinutes \in PollIntervals :
             liveTimers' = stopped \cup {Timer(id, intervalMinutes, by)}

\* startPolling(intervalMinutes, onUpdate) (119-129)
StartPolling ==
    /\ _onUpdate' = TRUE
    /\ StartPollingBy("startPolling")
    /\ UNCHANGED <<settings, storeVars, cycleCap, taskCap, otherVars>>

\* Mutant of StopPolling: the invocations in flight are abandoned.
StopPollingCancels ==
    /\ liveTimers' = TimersAfterStop(liveTimers, _pollTimer)
    /\ _pollTimer' = NoTimer
    /\ cycles' = [i \in 1..Len(cycles) |->
                    IF cycles[i].pc # "done"
                    THEN [cycles[i] EXCEPT !.pc = "done", !.result = "cancelled"]
                    ELSE cycles[i]]
    /\ UNCHANGED <<settings, storeVars, _onUpdate, cycleCap, taskCap, otherVars>>

\* stopPolling() (131-136)
StopPolling ==
    /\ liveTimers' = TimersAfterStop(liveTimers, _pollTimer)
    /\ _pollTimer' = NoTimer
    /\ UNCHANGED <<settings, storeVars, _onUpdate, cycles, cycleCap, taskCap, otherVars>>

\* restartPolling(intervalMinutes) (138-142)
RestartPolling ==
    /\ IF _onUpdate
       THEN StartPollingBy("restartPolling")
       ELSE UNCHANGED <<_pollTimer, liveTimers, cycles>>
    /\ UNCHANGED <<settings, storeVars, _onUpdate, cycleCap, taskCap, otherVars>>

\* An interval timer fires (128).
TimerTick ==
    /\ liveTimers # {}
    /\ PollStarts
    /\ UNCHANGED <<settings, storeVars, _pollTimer, liveTimers, _onUpdate, cycleCap,
                   taskCap, otherVars>>

\* refresh() (145-147)
Refresh ==
    /\ PollStarts
    /\ UNCHANGED <<settings, storeVars, _pollTimer, liveTimers, _onUpdate, cycleCap,
                   taskCap, otherVars>>

\* The settings surface writes other settings to the store.
SettingsChanged ==
    /\ \E st \in SettingsProfiles \ {settings} : settings' = st
    /\ UNCHANGED <<storeVars, _pollTimer, liveTimers, _onUpdate, cycles, cycleCap,
                   taskCap, otherVars>>

engineFrame == <<settings, _pollTimer, liveTimers, _onUpdate, cycleCap, taskCap, otherVars>>

\* getWorkspaces() settles (155-164).
WorkspacesReply(i) ==
    /\ cycles[i].pc = "workspaces"
    /\ \E outcome \in {"throws", "empty", "ok"} :
          cycles' = [cycles EXCEPT ![i] =
              CASE outcome = "throws" -> Fail(@)
                [] outcome = "empty"  -> Finish(@, "skipped", cachedTasks, cachedProjects)
                [] OTHER ->
                     IF Len(cachedUsers) = 0
                     THEN [@ EXCEPT !.pc = "users", !.usersFetched = TRUE, !.fetches = @ + 1]
                     ELSE IssueTaskFetches(@)]
    /\ UNCHANGED <<storeVars, engineFrame>>

\* getUsers() settles (162-163).
UsersReply(i) ==
    /\ cycles[i].pc = "users"
    /\ \/ /\ cycles' = [cycles EXCEPT ![i] = Fail(@)]
          /\ UNCHANGED cachedUsers
       \/ \E users \in UserReplies :
            /\ cachedUsers' = users
            /\ cycles' = [cycles EXCEPT ![i] = IssueTaskFetches(@)]
    /\ UNCHANGED <<cachedTasks, cachedProjects, tasksWriter, projectsWriter, engineFrame>>

\* The one getTasks() of the single-user or unfiltered mode settles (169-171, 190).
TasksReply(i) ==
    /\ cycles[i].pc = "tasks"
    /\ \/ cycles' = [cycles EXCEPT ![i] = Fail(@)]
       \/ \E reply \in TaskReplies :
            cycles' = [cycles EXCEPT ![i] = WithTasks(@, <<reply>>, <<1>>)]
    /\ UNCHANGED <<storeVars, engineFrame>>

\* One getTasks() of Promise.all settles (174-187): a rejection rejects the
\* whole at once, the last result resolves it.
TaskSetReply(i) ==
    /\ cycles[i].pc = "taskSets"
    /\ \E k \in 1..Len(cycles[i].taskSets) :
          /\ k \notin Range(cycles[i].arrived)
          /\ \/ cycles' = [cycles EXCEPT ![i] = Fail(@)]
             \/ \E reply \in TaskReplies :
                  LET sets    == [cycles[i].taskSets EXCEPT ![k] = reply]
                      arrived == Append(cycles[i].arrived, k)
                  IN cycles' = [cycles EXCEPT ![i] =
                         IF Len(arrived) = Len(sets)
                         THEN WithTasks(@, sets, arrived)
                         ELSE [@ EXCEPT !.taskSets = sets, !.arrived = arrived]]
    /\ UNCHANGED <<storeVars, engineFrame>>

\* Mutant of ProjectsReply: the task write alone is made in this step.
ProjectsReplyTasksOnly(i) ==
    /\ cycles[i].pc = "projects"
    /\ \E reply \in ProjectReplies :
          LET projects == FilterProjects(reply, SettingsRead(cycles[i])) IN
          /\ cachedTasks' = cycles[i].tasks /\ tasksWriter' = i
          /\ cycles' = [cycles EXCEPT ![i] =
                 Finish([@ EXCEPT !.projects = projects], "updated",
                        cycles[i].tasks, cachedProjects)]
          /\ UNCHANGED <<cachedProjects, projectsWriter, cachedUsers>>
    /\ UNCHANGED engineFrame

\* getProjects() settles (197-207): filter, write the cache, notify.
ProjectsReply(i) ==
    /\ cycles[i].pc = "projects"
    /\ \/ /\ cycles' = [cycles EXCEPT ![i] = Fail(@)]
          /\ UNCHANGED storeVars
       \/ \E reply \in ProjectReplies :
            LET projects == FilterProjects(reply, SettingsRead(cycles[i])) IN
            /\ cachedTasks' = cycles[i].tasks
            /\ cachedProjects' = projects
            /\ tasksWriter' = i /\ projectsWriter' = i
            /\ cycles' = [cycles EXCEPT ![i] =
                   Finish([@ EXCEPT !.projects = projects], "updated",
                          cycles[i].tasks, projects)]
            /\ UNCHANGED cachedUsers
    /\ UNCHANGED engineFrame

\* A step of some invocation in flight.
CycleStep ==
    \E i \in 1..Len(cycles) :
        \/ WorkspacesReply(i) \/ UsersReply(i) \/ TasksReply(i)
        \/ TaskSetReply(i) \/ ProjectsReply(i)

Init == EngineInit(MaxCycles, 0)

Next ==
    \/ StartPolling \/ StopPolling \/ RestartPolling \/ TimerTick \/ Refresh
    \/ SettingsChanged \/ CycleStep

Spec == Init /\ [][Next]_vars

\* One invocation of _poll, with longer remote replies.
OneCycleInit == EngineInit(1, MaxTasks)

OneCycleNext == StartPolling \/ Refresh \/ CycleStep

SpecOneCycle == OneCycleInit /\ [][OneCycleNext]_vars

(***************************************************************************)
(* One cycle with its requests: _poll over _fetchAll over _fetch           *)
(* (asana-api.js 20-69, 82-106, 149-214).  The awaits of the cycle are     *)
(* served one at a time, those of Promise.all one after the other.         *)
(***************************************************************************)
LiveKeyStates ==
    { NoKeyState, [stored |-> [safeStorage |-> TRUE, data |-> "enc(token)"], available |-> TRUE] }

\* Retry-After headers: absent, over the cap, not a number, negative.
LiveHeaders == { NoHeader, <<"9", "9", "9", "9">>, <<"x">>, <<"-", "1">> }

LiveCursors == { <<"e", "y", "J">> }

\* The await cycle i is at.
CallOf(i) == [cycle |-> i, pc |-> cycles[i].pc, n |-> Len(cycles[i].arrived)]

\* The endpoint of the call a cycle awaits (83, 88, 96-98, 105).
LiveEndpoint(pc) ==
    CASE pc = "workspaces" -> <<"/", "w", "?", "l", "=", "1">>
      [] pc = "users"      -> <<"/", "u", "?", "f", "=", "n">>
      [] pc = "projects"   -> <<"/", "p", "?", "a", "=", "f">>
      [] OTHER             -> <<"/", "t", "?", "c", "=", "f">>

LiveInit == EngineInit(1, 0)

liveFrame == <<filterVars, ctorVars, settingsVars, storeApiVars>>

\* _fetch(endpoint, options) is entered with retryCount 0 (20-31).
LiveFetchStart ==
    /\ retryCount' = 0
    /\ retryAfterHeader' = NoHeader /\ waitMs' = Num(0) /\ delay' = 0
    /\ \E ks \in LiveKeyStates :
          /\ keyState' = ks
          /\ IF NoApiKey(getApiKey(ks))
             THEN hpc' = "threw" /\ fetchError' = "nokey"
             ELSE hpc' = "inflight" /\ fetchError' = "none"
    /\ UNCHANGED <<requests, responses, caller, vpc, verifyResult>>

\* Cycle i reaches an await: getWorkspaces calls _fetch (83), the other
\* calls _fetchAll, which builds the first page URL and calls _fetch (53-63).
LiveCall(i) ==
    /\ cycles[i].pc \in {"workspaces", "users", "tasks", "taskSets", "projects"}
    /\ awaited # CallOf(i)
    /\ apc \in {"off", "returned", "threw"}
    /\ awaited' = CallOf(i)
    /\ endpoint' = LiveEndpoint(cycles[i].pc)
    /\ IF cycles[i].pc = "workspaces"
       THEN apc' = "direct" /\ pageUrls' = <<LiveEndpoint(cycles[i].pc)>>
       ELSE apc' = "inflight" /\ pageUrls' = <<PageUrl(LiveEndpoint(cycles[i].pc), NoCursor)>>
    /\ allData' = <<>> /\ nextPage' = NoCursor
    /\ LiveFetchStart
    /\ UNCHANGED <<source, engineVars, liveFrame>>

\* fetch() resolves with a response (31-48).
LiveResponse ==
    /\ hpc = "inflight"
    /\ \E status \in Statuses :
          IF ShouldRetry(status, retryCount)
          THEN \E h \in LiveHeaders :
                 /\ retryAfterHeader' = h
                 /\ waitMs' = WaitMs(h)
                 /\ delay' = TimerDelay(WaitMs(h))
                 /\ hpc' = "backoff"
                 /\ UNCHANGED fetchError
          ELSE /\ IF ~ResponseOk(status)
                  THEN hpc' = "threw" /\ fetchError' = "http"
                  ELSE \E bodyIsJson \in BOOLEAN :
                         IF bodyIsJson
                         THEN hpc' = "returned" /\ UNCHANGED fetchError
                         ELSE hpc' = "threw" /\ fetchError' = "json"
               /\ UNCHANGED <<retryAfterHeader, waitMs, delay>>
    /\ UNCHANGED <<retryCount, requests, responses, keyState, caller, vpc, verifyResult>>
    /\ UNCHANGED <<fetchAllVars, awaited, engineVars, liveFrame>>

\* The backoff timer fires: return this._fetch(endpoint, options, retryCount + 1) (38-39).
LiveBackoffElapsed ==
    /\ hpc = "backoff"
    /\ retryCount' = RetryCountAfter(retryCount)
    /\ retryAfterHeader' = NoHeader /\ waitMs' = Num(0) /\ delay' = 0
    /\ \E ks \in LiveKeyStates :
          /\ keyState' = ks
          /\ IF NoApiKey(getApiKey(ks))
             THEN hpc' = "threw" /\ fetchError' = "nokey"
             ELSE hpc' = "inflight" /\ UNCHANGED fetchError
    /\ UNCHANGED <<requests, responses, caller, vpc, verifyResult>>
    /\ UNCHANGED <<fetchAllVars, awaited, engineVars, liveFrame>>

\* The _fetch of getWorkspaces settles (83-84).
LiveDirect ==
    /\ apc = "direct" /\ hpc \in {"returned", "threw"}
    /\ apc' = hpc /\ hpc' = "off"
    /\ UNCHANGED <<retryCount, requests, responses, retryAfterHeader, waitMs, delay,
                   fetchError, keyState, caller, vpc, verifyResult>>
    /\ UNCHANGED <<endpoint, source, allData, nextPage, pageUrls, awaited, engineVars,
                   liveFrame>>

\* The _fetch of a page settles (63-66): a rejection leaves _fetchAll; a
\* page with a cursor is followed by the request of the next page, a page
\* without one ends the loop.  The remote serves at most MaxPages pages.
LivePage ==
    /\ apc = "inflight" /\ hpc \in {"returned", "threw"}
    /\ IF hpc = "threw"
       THEN /\ apc' = "threw" /\ hpc' = "off"
            /\ UNCHANGED <<retryCount, requests, responses, retryAfterHeader, waitMs,
                           delay, fetchError, keyState, caller, vpc, verifyResult>>
            /\ UNCHANGED <<allData, nextPage, pageUrls>>
       ELSE \E cursor \in LiveCursors \cup {NoCursor} :
              /\ cursor # NoCursor => Len(pageUrls) < MaxPages
              /\ allData' = allData \o <<"r1">>
              /\ nextPage' = cursor
              /\ IF cursor # NoCursor
                 THEN /\ pageUrls' = Append(pageUrls, PageUrl(endpoint, cursor))
                      /\ LiveFetchStart
                      /\ UNCHANGED apc
                 ELSE /\ apc' = "returned" /\ hpc' = "off"
                      /\ UNCHANGED <<retryCount, requests, responses, retryAfterHeader,
                                     waitMs, delay, fetchError, keyState, caller, vpc,
                                     verifyResult>>
                      /\ UNCHANGED pageUrls
    /\ UNCHANGED <<endpoint, source, awaited, engineVars, liveFrame>>

\* The await of cycle i settles as the call did: the cycle continues after
\* it, or enters its catch block.
LiveSettle(i) ==
    /\ awaited = CallOf(i) /\ apc \in {"returned", "threw"}
    /\ \/ WorkspacesReply(i) \/ UsersReply(i) \/ TasksReply(i)
       \/ TaskSetReply(i) \/ ProjectsReply(i)
    /\ apc = "threw" <=> cycles'[i].result = "error"

LiveCalls == \E i \in 1..Len(cycles) : LiveCall(i)

LiveSettles == \E i \in 1..Len(cycles) : LiveSettle(i)

LiveNext ==
    \/ StartPolling \/ Refresh
    \/ LiveCalls \/ LiveResponse \/ FetchNetworkError \/ LiveBackoffElapsed
    \/ LiveDirect \/ LivePage \/ LiveSettles

\* Every HTTP call returns, every timer fires, every continuation runs.
LiveFairness ==
    /\ WF_vars(LiveCalls)
    /\ WF_vars(LiveResponse \/ FetchNetworkError)
    /\ WF_vars(LiveBackoffElapsed)
    /\ WF_vars(LiveDirect)
    /\ WF_vars(LivePage)
    /\ WF_vars(LiveSettles)

SpecLive == LiveInit /\ [][LiveNext]_vars /\ LiveFairness

(***************************************************************************)
(* Settings specification.                                                 *)
(***************************************************************************)
SettingValues ==
    { JsNull, JsBool(TRUE), JsNum(<<"1">>), JsNum(<<"2">>),
      JsStr(<<"1">>), JsStr(<<"n", "u", "l", "l">>), JsStr(<<"a", QUOTE, BACKSLASH>>),
      JsArr(<<>>), JsArr(<< <<"U", "1">>, <<",", QUOTE>> >>) }

\* The objects setSettings is called with: any keys, any values.
UpdateObjects == UNION {[D -> SettingValues] : D \in SUBSET SettingKeys}

SettingsInit ==
    /\ FilterOff /\ FetchOff /\ CtorOff /\ EngineOff /\ MoreOff
    /\ settingsRows = NoRows /\ lastUpdates = NullUpdates /\ before = NoSettings
    /\ spc = "ready" /\ entryOrder = <<>> /\ failedAt = 0

\* setSettings(updates) (215-218)
SetSettings ==
    /\ spc \in {"ready", "called", "threw"}
    /\ before' = getSettings(settingsRows)
    /\ \E updates \in UpdateObjects \cup {NullUpdates} :
          /\ lastUpdates' = updates
          /\ IF updates = NullUpdates
             THEN /\ UNCHANGED settingsRows
                  /\ entryOrder' = <<>> /\ failedAt' = 0 /\ spc' = "called"
             ELSE \E order \in EntryOrders(updates), failAt \in 0..Cardinality(DOMAIN updates) :
                    /\ settingsRows' = _setManySettings(settingsRows, updates, order, failAt)
                    /\ entryOrder' = order /\ failedAt' = failAt
                    /\ spc' = IF failAt = 0 THEN "called" ELSE "threw"
    /\ UNCHANGED <<filterVars, fetchVars, ctorVars, engineVars, moreVars>>

SettingsNext == SetSettings

SpecSettings == SettingsInit /\ [][SettingsNext]_vars

(***************************************************************************)
(* Inputs of the filter specification.                                     *)
(***************************************************************************)
MaxItems == 3       \* longest item list
MaxPatterns == 2    \* longest pattern list (inclusion and exclusion)
MaxGids == 2        \* longest exclusion-GID list


FilterItems ==
    { [gid |-> "1",  name |-> LaunchPlan],
      [gid |-> "42", name |-> LaunchReview],
      [gid |-> "7",  name |-> Other],
      [gid |-> "8",  name |-> NoName] }

FilterPatterns ==
    { <<"l","a","u","n","c","h">>,
      <<"R","E","V","I","E","W">>,
      <<"O","t","h","e","r">>,
      <<>> }

FilterGids == {"42", "7"}

FilterInit ==
    /\ FetchOff /\ CtorOff /\ SettingsOff /\ EngineOff /\ MoreOff
    /\ items \in SeqUpTo(FilterItems, MaxItems)
    /\ includePatterns \in SeqUpTo(FilterPatterns, MaxPatterns)
    /\ gidList \in SeqUpTo(FilterGids, MaxGids)
    /\ excludePatterns \in SeqUpTo(FilterPatterns, MaxPatterns)
    /\ filtered = <<>>
    /\ fpc = "call"

ApplyFiltersCall ==
    /\ fpc = "call"
    /\ filtered' = _applyFilters(items, includePatterns, gidList, excludePatterns)
    /\ fpc' = "returned"
    /\ UNCHANGED <<items, includePatterns, gidList, excludePatterns>>
    /\ UNCHANGED <<fetchVars, ctorVars, settingsVars, engineVars, moreVars>>

FilterNext == ApplyFiltersCall

SpecFilter == FilterInit /\ [][FilterNext]_vars

(***************************************************************************)
(* Claims about the Store constructor.                                     *)
(***************************************************************************)
\* The store is open on a database that passes the integrity check.
StoreUsable == dbHandle = "open" /\ primary.kind = "db"

\* C9: whatever the primary and the backup file are, the constructor never
\* throws and ends with an open, usable database that holds the primary's
\* data, the backup's data or nothing.  (Stated for the runs in which no
\* file copy fails: the file states alone refute it.)
C9_CtorAlwaysUsable ==
    ~fsFault =>
      /\ cpc # "thrown"
      /\ cpc = "done" =>
            /\ StoreUsable
            /\ primary.data \in {primary0.data, backup0.data, "empty"}

\* The constructor has thrown on a primary file that is not a database.
C9_Thrown == cpc = "thrown" /\ primary0 = Garbage /\ ~fsFault

\* C28 (as written): when the primary file fails the integrity check at
\* startup and the backup file held a healthy copy, the constructor ends with
\* an open, usable store that holds the data of that copy.
C28_AsWritten ==
    (primary0.kind \in {"garbage", "damaged"} /\ backup0.kind = "db" /\ ~fsFault
        /\ cpc \in {"done", "thrown"})
    => /\ cpc = "done" /\ StoreUsable
       /\ primary.data = backup0.data

(***************************************************************************)
(* Claims about the settings.                                              *)
(***************************************************************************)
\* C10: after a setSettings call, getSettings returns for every key of the
\* call the value given, and for every other key what it returned before
\* the call (absent if it was absent); by induction on the calls, every key
\* has the value of the latest call that contained it.
C10_SettingsMerge ==
    (spc = "called" /\ lastUpdates # NullUpdates) =>
        LET now == getSettings(settingsRows) IN
        /\ DOMAIN now = DOMAIN before \cup DOMAIN lastUpdates
        /\ \A k \in DOMAIN now :
              now[k] = IF k \in DOMAIN lastUpdates THEN lastUpdates[k] ELSE before[k]

\* C10 witness: setSettings({a:1}); setSettings({b:2}) gives {a:1, b:2}.
C10_Witness ==
    /\ spc = "called"
    /\ before = [k \in {"a"} |-> JsNum(<<"1">>)]
    /\ lastUpdates = [k \in {"b"} |-> JsNum(<<"2">>)]
    /\ getSettings(settingsRows) =
          [k \in {"a", "b"} |-> IF k = "a" THEN JsNum(<<"1">>) ELSE JsNum(<<"2">>)]

\* C11: a setSettings call with several keys is atomic: what a reader gets
\* after the call (there is no state in between: the transaction runs inside
\* one synchronous call) has either every key of the batch at its new value,
\* or, if the write of some key failed, exactly what it had before the call.
C11_BatchAtomic ==
    (spc \in {"called", "threw"} /\ lastUpdates # NullUpdates) =>
        LET now == getSettings(settingsRows) IN
        IF spc = "threw"
        THEN now = before
        ELSE \A k \in DOMAIN lastUpdates : k \in DOMAIN now /\ now[k] = lastUpdates[k]

\* C11 witness: a batch of two keys whose second write failed, after the
\* first one was written with a value other than the stored one.
C11_Witness ==
    /\ spc = "threw" /\ Len(entryOrder) = 2 /\ failedAt = 2
    /\ entryOrder[1] \in DOMAIN before
    /\ before[entryOrder[1]] # lastUpdates[entryOrder[1]]
    /\ getSettings(settingsRows) = before

(***************************************************************************)
(* Claims about _fetch.                                                    *)
(***************************************************************************)
\* The call is over (it returned or threw).
FetchEnded == hpc \in {"returned", "threw"}

\* The first n responses of the call were all 429.
First429s(n) == Len(responses) >= n /\ \A i \in 1..n : responses[i] = 429

\* C5 as written: once the server has answered 429 three times in a row the
\* call has failed and no 4th HTTP request is issued.
C5_AsWritten == First429s(3) => (hpc = "threw" /\ requests <= 3)

\* C5 amended: the ceiling is 3 retries after the first request: a call never
\* issues more than MAX_RETRIES + 1 = 4 requests, the third 429 in a row does
\* not fail it (it is retried), and after the fourth 429 in a row it has
\* failed with the HTTP error, 4 requests issued.
C5_RetryCeiling ==
    /\ requests <= MAX_RETRIES + 1
    /\ retryCount <= MAX_RETRIES
    /\ (First429s(3) /\ Len(responses) = 3) => ~(hpc = "threw" /\ fetchError = "http")
    /\ First429s(4) =>
          (hpc = "threw" /\ fetchError = "http" /\ requests = 4 /\ Len(responses) = 4)

\* C5 witness: four 429 in a row, the call has failed after 4 requests.
C5_Witness == First429s(4) /\ hpc = "threw" /\ requests = 4

\* The 4th request in flight after three 429 in a row.
C5_FourthRequest == First429s(3) /\ hpc = "inflight" /\ requests = 4

\* C6: the delay waited before the retry of a 429 is at most 120 seconds,
\* whatever the Retry-After header holds (absent, above 120, not a number).
C6_BackoffBound == hpc = "backoff" => (delay >= 0 /\ delay <= 120 * 1000)

\* C6 witness: Retry-After: 9999 is waited for 120 s; an absent header for 30 s
\* is the neighbouring case, reached with the same action.
C6_Witness ==
    /\ hpc = "backoff"
    /\ retryAfterHeader = <<"9", "9", "9", "9">>
    /\ waitMs = Num(120000)
    /\ delay = 120000

\* The default of 30 s is used when the header is absent.
C6_DefaultWitness ==
    hpc = "backoff" /\ retryAfterHeader = NoHeader /\ delay = 30000

\* C13: a response with a non-success status other than 429 ends the call
\* with the HTTP error and is not retried, at any retry count: no request
\* follows it (one request in all when it is the first response), and only
\* 429 responses came before it.
C13_ErrorIsTerminal ==
    LET n == Len(responses) IN
    (n >= 1 /\ ~ResponseOk(responses[n]) /\ responses[n] # 429) =>
        /\ hpc = "threw" /\ fetchError = "http"
        /\ requests = n /\ retryCount = n - 1
        /\ \A i \in 1..(n - 1) : responses[i] = 429

\* C13 witness: a 500 after two retried 429 ends the call at its third
\* request.
C13_Witness ==
    /\ responses = <<429, 429, 500>> /\ retryCount = 2
    /\ hpc = "threw" /\ fetchError = "http" /\ requests = 3

\* A 500 as the first response: one request.
C13_FirstResponse == responses = <<500>> /\ hpc = "threw" /\ requests = 1

\* The three ways of the claim in which no plaintext credential is there.
NoCredentialStored(ks) == ks.stored = NullKey
FacilityUnavailable(ks) == ks.stored # NullKey /\ ~ks.available
DecryptionFails(ks) ==
    ks.stored # NullKey /\ ks.available /\ decryptString(ks.stored.data).threw

\* C14: an invocation of _fetch that finds no plaintext credential (none
\* stored, safeStorage unavailable, or the decryption fails) throws the same
\* missing-credential error in the three cases, has made no HTTP request of
\* its own (every request of the call has its response) and ends the call.
C14_MissingCredential ==
    (hpc \notin {"off", "idle"}
       /\ (NoCredentialStored(keyState) \/ FacilityUnavailable(keyState)
             \/ DecryptionFails(keyState)))
    => /\ hpc = "threw" /\ fetchError = "nokey"
       /\ requests = Len(responses)
       /\ requests = retryCount

\* C14 witness: the stored key does not decrypt when the retry of a 429
\* asks for it: the call ends there, with the one request made before.
C14_Witness ==
    /\ responses = <<429>> /\ retryCount = 1 /\ DecryptionFails(keyState)
    /\ hpc = "threw" /\ fetchError = "nokey" /\ requests = 1

\* The first invocation finds safeStorage unavailable: no request at all.
C14_Unavailable ==
    FacilityUnavailable(keyState) /\ hpc = "threw" /\ fetchError = "nokey" /\ requests = 0

\* C15: verifyApiKey never throws; it returns {valid: true, user} when its
\* call returned a user, and {valid: false, error} with the error of the
\* call whenever the call failed (no credential, an error status, retries
\* exhausted, a network failure, a body that is not JSON).
C15_VerifyNeverThrows ==
    /\ vpc # "threw"
    /\ vpc = "returned" =>
          /\ verifyResult.valid => (hpc = "returned" /\ verifyResult.detail = "user")
          /\ hpc = "threw" =>
                (~verifyResult.valid /\ verifyResult.detail = fetchError
                   /\ fetchError \in {"nokey", "http", "network", "json"})

\* C15 witness: the retries are exhausted (four 429 in a row) and
\* verifyApiKey has returned {valid: false, error}.
C15_Witness ==
    /\ First429s(4) /\ hpc = "threw" /\ vpc = "returned"
    /\ verifyResult = [valid |-> FALSE, detail |-> "http"]

\* verifyApiKey has returned {valid: true, user}.
C15_Valid == vpc = "returned" /\ verifyResult.valid /\ responses = <<200>>

(***************************************************************************)
(* Claims about _fetchAll.                                                 *)
(***************************************************************************)
\* The number of pages a source serves: up to its first page without a cursor.
PagesServed(src) == CHOOSE k \in 1..Len(src) :
    src[k].cursor = NoCursor /\ \A i \in 1..(k - 1) : src[i].cursor # NoCursor

RECURSIVE ConcatData(_, _)
ConcatData(src, k) == IF k = 0 THEN <<>> ELSE ConcatData(src, k - 1) \o src[k].data

\* C12: against a source serving K pages (K: its first page without a
\* cursor) _fetchAll never makes more than K requests, the first without an
\* offset and each later one with the cursor of the page before as its
\* offset, all with the page limit; when it returns it has made exactly K
\* requests and returns the K pages' data in page order.
C12_Pagination ==
    LET K == PagesServed(source) IN
    apc # "off" =>
        /\ Len(pageUrls) <= K
        /\ \A i \in 1..Len(pageUrls) :
              /\ QueryParam(pageUrls[i], LimitName) = PageLimit
              /\ QueryParam(pageUrls[i], OffsetName) =
                     IF i = 1 THEN NoParam ELSE source[i - 1].cursor
        /\ apc = "returned" =>
              /\ Len(pageUrls) = K
              /\ allData = ConcatData(source, K)

\* C12 witness: three pages with data, on an endpoint that has a query, and
\* a source that has one more page behind the first page without a cursor.
C12_Witness ==
    /\ apc = "returned" /\ Len(pageUrls) = 3 /\ includes(endpoint, <<"?">>)
    /\ allData = <<"r1", "r2", "r3", "r1">>

\* A source whose second page has no cursor is left after two requests.
C12_StopsEarly ==
    apc = "returned" /\ Len(source) = 3 /\ Len(pageUrls) = 2

(***************************************************************************)
(* Claims about the open Store.                                            *)
(***************************************************************************)
\* What getSeenTimestamps() returns (266-273).
getSeenTimestamps == Replay(dbFile, walFile).seen

\* What a store opened on the two files reads.
Reopened == Replay(dbFile, walFile)

\* C16: a step changes the seen-timestamp map only if it is a
\* setSeenTimestamp(g, t) with non-empty g and t, and then entry g becomes
\* t and every other entry stays; a cache write, a setSettings or a flush
\* leaves the map as it is, so no entry is ever removed.
C16_SeenFrame ==
    [][ /\ getSeenTimestamps' # getSeenTimestamps =>
             /\ lastCall'.op = "setSeen" /\ lastCall'.key # "" /\ lastCall'.value # ""
             /\ getSeenTimestamps' =
                    [getSeenTimestamps EXCEPT ![lastCall'.key] = lastCall'.value]
        /\ (lastCall'.op = "setSeen" /\ ~lastCall'.threw
              /\ lastCall'.key # "" /\ lastCall'.value # "" /\ stpc' = "open"
              /\ calls' = calls + 1)
             => getSeenTimestamps' =
                    [getSeenTimestamps EXCEPT ![lastCall'.key] = lastCall'.value]
        /\ \A g \in SeenGids :
              getSeenTimestamps[g] # Missing => getSeenTimestamps'[g] # Missing
      ]_vars

\* C16 witness: both entries set, then a cache write and a flush went by.
C16_Witness ==
    /\ getSeenTimestamps = [g \in SeenGids |-> IF g = "1" THEN "t1" ELSE "t2"]
    /\ stpc = "flushed" /\ calls = 3

\* C18: every write of a call that returned is in the two files at any
\* time (nothing is buffered in the process), and after a flush() whose
\* checkpoint succeeded it is in the database file, the log being empty:
\* a store opened on the files after flush() reads what the calls wrote.
C18_FlushDurable ==
    stpc \in {"open", "flushed"} =>
        /\ Reopened = made
        /\ (stpc = "flushed" /\ checkpointed) => (walFile = <<>> /\ dbFile = made)

\* C18 witness: three writes, still in the log, are checkpointed by flush.
C18_Witness ==
    /\ stpc = "flushed" /\ checkpointed /\ calls = 3
    /\ made.settings # NoRow /\ made.cache["tasks"] # Missing /\ made.seen["1"] # Missing
    /\ dbFile = made

\* flush() returned after its checkpoint failed: the writes are in the log.
C18_CheckpointFailed ==
    stpc = "flushed" /\ ~checkpointed /\ Len(walFile) = 3 /\ Reopened = made

(***************************************************************************)
(* Claims about _applyFilters.                                             *)
(***************************************************************************)
\* The lower-cased name of item i, a missing name read as the empty string.
ClaimName(i) ==
    LET it == items[i] IN
    IF it.name = NoName THEN <<>> ELSE [k \in 1..Len(it.name) |-> LowerChar(it.name[k])]

\* s contains p (plain substring containment, true for the empty p).
Contains(s, p) ==
    \E a \in 1..(Len(s) + 1) :
        a + Len(p) - 1 <= Len(s) /\ SubSeq(s, a, a + Len(p) - 1) = p

ClaimLower(p) == [k \in 1..Len(p) |-> LowerChar(p[k])]

\* filtered is exactly the items at the indices Kept, in input order.
ExactlyThose(Kept) ==
    /\ Len(filtered) = Cardinality(Kept)
    /\ \A k \in 1..Len(filtered) :
          \E i \in Kept :
              /\ Cardinality({j \in Kept : j <= i}) = k
              /\ filtered[k] = items[i]

\* The indices the claim as written keeps.
KeptAsWritten ==
    { i \in 1..Len(items) :
        /\ \/ includePatterns = <<>>
           \/ \E p \in Range(includePatterns) : Contains(ClaimName(i), ClaimLower(p))
        /\ items[i].gid \notin Range(gidList)
        /\ \A p \in Range(excludePatterns) : ~Contains(ClaimName(i), ClaimLower(p)) }

\* The indices kept when only non-empty patterns can match.
KeptNonEmpty ==
    { i \in 1..Len(items) :
        /\ \/ includePatterns = <<>>
           \/ \E p \in Range(includePatterns) :
                  p # <<>> /\ Contains(ClaimName(i), ClaimLower(p))
        /\ items[i].gid \notin Range(gidList)
        /\ \A p \in Range(excludePatterns) :
              p = <<>> \/ ~Contains(ClaimName(i), ClaimLower(p)) }

\* C2 as written: _applyFilters returns exactly the items whose lower-cased
\* name contains some lower-cased inclusion pattern (or the inclusion list is
\* empty), whose gid is not excluded and whose lower-cased name contains no
\* lower-cased exclusion pattern.  Refuted by an empty-string pattern.
C2_AsWritten == fpc = "returned" => ExactlyThose(KeptAsWritten)

\* C2 amended: the same, where only a non-empty pattern can match (an empty
\* inclusion pattern matches no name, an empty exclusion pattern removes
\* nothing).
C2_FilterExact == fpc = "returned" => ExactlyThose(KeptNonEmpty)

\* C2 witness: the scenario of the specification; inclusion ["launch"],
\* exclusion GID ["42"], items 1, 42, 7 give item 1 only.
C2_Witness ==
    /\ fpc = "returned"
    /\ items = << [gid |-> "1",  name |-> LaunchPlan],
                  [gid |-> "42", name |-> LaunchReview],
                  [gid |-> "7",  name |-> Other] >>
    /\ includePatterns = << <<"l","a","u","n","c","h">> >>
    /\ gidList = <<"42">>
    /\ excludePatterns = <<>>
    /\ filtered = << [gid |-> "1", name |-> LaunchPlan] >>


\* The lists with the entries of s in another order.
Reorderings(s) ==
    { [i \in 1..Len(s) |-> s[f[i]]] :
        f \in {g \in [1..Len(s) -> 1..Len(s)] : \A j \in 1..Len(s) : \E i \in 1..Len(s) : g[i] = j} }

\* The three checks as passes over a list of items.
InclusionPass(its, incl) ==
    LET Passes(item) == Len(incl) > 0 =>
            \E i \in 1..Len(incl) : PatternMatches(toLowerCase(NameOrEmpty(item)), incl[i])
    IN SelectSeq(its, Passes)

GidPass(its, gids) ==
    LET Passes(item) == item.gid \notin Range(gids) IN SelectSeq(its, Passes)

PatternPass(its, excl) ==
    LET Passes(item) ==
            \A i \in 1..Len(excl) : ~PatternMatches(toLowerCase(NameOrEmpty(item)), excl[i])
    IN SelectSeq(its, Passes)

\* C20: the result of _applyFilters is the same for every order of the
\* entries inside each of the three lists, and it is what the inclusion pass,
\* then the exclusion-by-GID pass, then the exclusion-by-pattern pass give.
C20_OrderIndependent ==
    fpc = "returned" =>
      /\ \A incl \in Reorderings(includePatterns), gids \in Reorderings(gidList),
            excl \in Reorderings(excludePatterns) :
              _applyFilters(items, incl, gids, excl) = filtered
      /\ filtered = PatternPass(GidPass(InclusionPass(items, includePatterns), gidList),
                                excludePatterns)

\* C20 witness: lists of two different entries; items 1 and 42 pass the
\* inclusion by its second pattern, item 42 is removed by the second GID,
\* item 7 by the first.
C20_Witness ==
    /\ fpc = "returned"
    /\ items = << [gid |-> "1",  name |-> LaunchPlan],
                  [gid |-> "42", name |-> LaunchReview],
                  [gid |-> "7",  name |-> Other] >>
    /\ includePatterns = << <<"O","t","h","e","r">>, <<"l","a","u","n","c","h">> >>
    /\ gidList = <<"7", "42">>
    /\ excludePatterns = << <<"R","E","V","I","E","W">>, <<"O","t","h","e","r">> >>
    /\ filtered = << [gid |-> "1", name |-> LaunchPlan] >>

\* The list without its empty-string entries.
NonEmptyEntries(ps) == LET Filled(p) == p # <<>> IN SelectSeq(ps, Filled)

\* The items, a missing name replaced by the empty string.
WithEmptyNames(its) ==
    [k \in 1..Len(its) |->
        IF its[k].name = NoName THEN [its[k] EXCEPT !.name = <<>>] ELSE its[k]]

\* C30: a non-empty inclusion list of empty strings only removes every item;
\* the empty strings of the exclusion-pattern list remove nothing (the result
\* is that of the list without them); an inclusion list with some non-empty
\* pattern gives the result of the list without its empty strings; items
\* without a name are kept or removed as if their name were the empty string.
C30_EmptyPattern ==
    fpc = "returned" =>
      /\ (includePatterns # <<>> /\ NonEmptyEntries(includePatterns) = <<>>) => filtered = <<>>
      /\ filtered = _applyFilters(items, includePatterns, gidList,
                                  NonEmptyEntries(excludePatterns))
      /\ NonEmptyEntries(includePatterns) # <<>> =>
            filtered = _applyFilters(items, NonEmptyEntries(includePatterns), gidList,
                                     excludePatterns)
      /\ WithEmptyNames(filtered) =
            _applyFilters(WithEmptyNames(items), includePatterns, gidList, excludePatterns)

\* C30 witness: the exclusion list holds an empty string and "Other"; the
\* item named Other is removed, the items named Launch plan and without a
\* name are kept.
C30_Witness ==
    /\ fpc = "returned"
    /\ items = << [gid |-> "1", name |-> LaunchPlan],
                  [gid |-> "8", name |-> NoName],
                  [gid |-> "7", name |-> Other] >>
    /\ includePatterns = <<>> /\ gidList = <<>>
    /\ excludePatterns = << <<>>, <<"O","t","h","e","r">> >>
    /\ filtered = << [gid |-> "1", name |-> LaunchPlan], [gid |-> "8", name |-> NoName] >>

(***************************************************************************)
(* Claims about the sync engine.                                           *)
(***************************************************************************)
Cycles == 1..Len(cycles)

InFlight == {i \in Cycles : cycles[i].pc # "done"}

\* C1 (as written): at most one poll cycle is in flight at any time; a timer
\* tick or refresh() during a cycle starts no second one.
C1_AsWritten == Cardinality(InFlight) <= 1

\* The cycle has every task reply and has merged them.
HasTasks(c) == c.pc = "projects" \/ c.result = "updated"

\* C3: in single-user mode every task a successful cycle writes to the store
\* and publishes is assigned to currentUserId, whatever the search returned.
C3_SingleUserStrict ==
    \A i \in Cycles :
        LET c == cycles[i] IN
        (c.result = "updated" /\ c.settings.showOnlyMyTasks /\ c.settings.currentUserId # None)
        => /\ cachedTasks = c.tasks
           /\ \A t \in Range(c.tasks) : t.assignee = c.settings.currentUserId

\* A successful single-user cycle kept a task of the current user and dropped
\* one the search returned for somebody else or for nobody.
C3_Witness ==
    \E i \in Cycles :
        LET c == cycles[i] IN
        /\ c.result = "updated" /\ Mode(c.settings) = "single"
        /\ c.tasks # <<>> /\ cachedTasks = c.tasks
        /\ \E t \in Range(c.taskSets[1]) : t.assignee # c.settings.currentUserId

\* The result lists of a cycle, one after the other in selectedUserIds order.
ScanOf(c) == Flatten(c.taskSets)

Selected(c, t) == t.assignee \in Range(c.settings.selectedUserIds)

\* Position in the scan of the first record of gid g.
FirstPos(scan, g) ==
    CHOOSE p \in 1..Len(scan) :
        scan[p].gid = g /\ \A q \in 1..(p - 1) : scan[q].gid # g

\* Position in the scan of the first record of gid g with a selected assignee.
FirstSelectedPos(c, g) ==
    LET scan == ScanOf(c) IN
    CHOOSE p \in 1..Len(scan) :
        /\ scan[p].gid = g /\ Selected(c, scan[p])
        /\ \A q \in 1..(p - 1) : ~(scan[q].gid = g /\ Selected(c, scan[q]))

MultiMerged(c) == Mode(c.settings) = "multi" /\ HasTasks(c)

\* C4 (as written): the merged list keeps, for each GID, the first record
\* encountered when the result lists are scanned in selectedUserIds order.
C4_AsWritten ==
    \A i \in Cycles :
        LET c == cycles[i] IN
        MultiMerged(c) =>
            \A a \in 1..Len(c.merged) :
                c.merged[a] = ScanOf(c)[FirstPos(ScanOf(c), c.merged[a].gid)]

\* C4 (amended): the merged list holds each GID at most once and only tasks
\* whose assignee is selected; it holds a GID iff some scanned record of it
\* has a selected assignee, and then the first such record of the scan in
\* selectedUserIds order, in scan order: whatever order the replies came in.
C4_MergeFirstSelected ==
    \A i \in Cycles :
        LET c    == cycles[i]
            scan == ScanOf(c)
            m    == c.merged
        IN MultiMerged(c) =>
            /\ \A a, b \in 1..Len(m) : m[a].gid = m[b].gid => a = b
            /\ \A a \in 1..Len(m) : Selected(c, m[a])
            /\ {t.gid : t \in Range(m)} = {t.gid : t \in {u \in Range(scan) : Selected(c, u)}}
            /\ \A a \in 1..Len(m) : m[a] = scan[FirstSelectedPos(c, m[a].gid)]
            /\ \A a, b \in 1..Len(m) :
                   a < b => FirstSelectedPos(c, m[a].gid) < FirstSelectedPos(c, m[b].gid)

\* The replies came in against the order of selectedUserIds, and both lists
\* hold a record of the same GID, different ones, each with a selected
\* assignee.
C4_Witness ==
    \E i \in Cycles :
        LET c == cycles[i] IN
        /\ MultiMerged(c) /\ c.arrived = <<2, 1>>
        /\ \E t \in Range(c.taskSets[1]), u \in Range(c.taskSets[2]) :
              /\ t.gid = u.gid /\ t # u
              /\ Selected(c, t) /\ Selected(c, u)
              /\ t \in Range(c.merged)

\* The users whose tasks the mode of the settings asks for.
WantedUsers(st) ==
    IF Mode(st) = "single" THEN {st.currentUserId} ELSE Range(st.selectedUserIds)

\* The strict assignee test over a task list: assignee present and wanted.
StrictlyAssigned(ts, users) ==
    LET Strict(t) == t.assignee # None /\ t.assignee \in users IN SelectSeq(ts, Strict)

\* C21: in single-user and in multi-user mode the task list that went
\* through the assignee filter of the cycle is left as it is by the filter:
\* by the strict test itself, and by lines 167-187 run over it once more.
C21_AssigneeFilterIdempotent ==
    \A i \in Cycles :
        LET c == cycles[i] IN
        (HasTasks(c) /\ Mode(c.settings) \in {"single", "multi"}) =>
            /\ StrictlyAssigned(c.merged, WantedUsers(c.settings)) = c.merged
            /\ AssignedTasks(c.settings, <<c.merged>>, <<1>>) = c.merged

\* C21 witness: the filter of a single-user cycle removed a task without
\* assignee and one of another user and kept a task of the current user.
C21_Witness ==
    \E i \in Cycles :
        LET c == cycles[i] IN
        /\ HasTasks(c) /\ Mode(c.settings) = "single"
        /\ c.taskSets[1] = <<Task("2", None, Other), Task("1", c.settings.currentUserId, LaunchPlan)>>
        /\ c.merged = <<Task("1", c.settings.currentUserId, LaunchPlan)>>

\* The cycle has issued its task fetches.
TasksAsked(c) == c.pc \in {"tasks", "taskSets"} \/ c.projectsFetched

\* C22: the task fetches of a cycle are those of one mode, chosen from the
\* settings read at its start: one fetch for currentUserId and the strict
\* test iff showOnlyMyTasks and currentUserId is set; otherwise one fetch per
\* selected user iff selectedUserIds is non-empty; otherwise one fetch with
\* no assignee parameter whose reply is taken as it is.  In each mode the
\* projects are fetched once the tasks are there.
C22_OneMode ==
    \A i \in Cycles :
        LET c  == cycles[i]
            st == c.settings
            single == st.showOnlyMyTasks /\ st.currentUserId # None
            multi  == ~single /\ Len(st.selectedUserIds) > 0
        IN /\ c.pc \in {"workspaces", "users"} => c.asked = <<>>
           /\ (TasksAsked(c) \/ c.asked # <<>>) =>
                 c.asked = IF single THEN << <<"&assignee=", st.currentUserId>> >>
                           ELSE IF multi
                           THEN [k \in 1..Len(st.selectedUserIds) |->
                                   <<"&assignee=", st.selectedUserIds[k]>>]
                           ELSE << <<>> >>
           /\ HasTasks(c) =>
                 /\ c.projectsFetched
                 /\ Len(c.taskSets) = Len(c.asked)
                 /\ single => c.merged = StrictlyAssigned(c.taskSets[1], {st.currentUserId})
                 /\ multi => \A t \in Range(c.merged) : t.assignee \in Range(st.selectedUserIds)
                 /\ (~single /\ ~multi) => c.merged = c.taskSets[1]
           /\ c.projectsFetched =>
                 c.fetches = 1 + (IF c.usersFetched THEN 1 ELSE 0) + Len(c.asked) + 1

\* C22 witness: an unfiltered cycle (showOnlyMyTasks false, nobody selected)
\* made one task fetch without assignee parameter, kept a task without
\* assignee and one of a user, and fetched the projects.
C22_Witness ==
    \E i \in Cycles :
        LET c == cycles[i] IN
        /\ c.result = "updated"
        /\ ~c.settings.showOnlyMyTasks /\ c.settings.selectedUserIds = <<>>
        /\ c.asked = << <<>> >>
        /\ c.merged = <<Task("2", None, Other), Task("1", "U3", LaunchPlan)>>
        /\ c.projectsFetched

\* C17: after every step at most one interval timer is live, it is the
\* one _pollTimer holds and its period is the interval asked for; a step
\* that changes the timers (startPolling, restartPolling, stopPolling)
\* leaves the cached tasks, projects and users as they are.
C17_OneTimer ==
    [][ /\ Cardinality(liveTimers') <= 1
        /\ \A t \in liveTimers' :
              t.id = _pollTimer' /\ t.ms = t.minutes * 60000 /\ t.minutes \in PollIntervals
        /\ _pollTimer' # NoTimer => liveTimers' # {}
        /\ (liveTimers' # liveTimers \/ _pollTimer' # _pollTimer) =>
              /\ cachedTasks' = cachedTasks /\ cachedProjects' = cachedProjects
              /\ cachedUsers' = cachedUsers
      ]_vars

\* C17 witness: restartPolling(1) has replaced the timer, while the cache
\* holds the snapshot and the users of a finished cycle.
C17_Witness ==
    /\ liveTimers = {Timer(1, 1, "restartPolling")} /\ _pollTimer = 1
    /\ Len(cycles) = 2 /\ cycles[1].result = "updated"
    /\ cachedTasks = cycles[1].tasks /\ cachedUsers # <<>>

\* C19: the settings of a cycle are those stored when it started and never
\* change afterwards; the task fetches it issued, the tasks it keeps and the
\* projects it writes and publishes are what the mode and the filter lists of
\* these settings give, whatever the stored settings are by then.
C19_SettingsSnapshot ==
    [][ /\ \A i \in Cycles : cycles'[i].settings = cycles[i].settings
        /\ Len(cycles') > Len(cycles) => cycles'[Len(cycles')].settings = settings
        /\ \A i \in 1..Len(cycles') :
              LET c  == cycles'[i]
                  st == c.settings
                  multi == ~(st.showOnlyMyTasks /\ st.currentUserId # None)
                           /\ Len(st.selectedUserIds) > 0
              IN /\ (c.pc \in {"tasks", "taskSets"} \/ HasTasks(c)) =>
                       Len(c.taskSets) = IF multi THEN Len(st.selectedUserIds) ELSE 1
                 /\ HasTasks(c) =>
                       c.tasks = FilterTasks(AssignedTasks(st, c.taskSets, c.arrived), st)
                 /\ c.result = "updated" =>
                       /\ c.projects = FilterProjects(c.projects, st)
                       /\ c.tasksAtEnd = c.tasks /\ c.projectsAtEnd = c.projects
                       /\ c.subscribed => c.events = <<"updated">>
                 /\ (i \in Cycles /\ cycles[i].result # "updated" /\ c.result = "updated") =>
                       cachedTasks' = c.tasks /\ cachedProjects' = c.projects
      ]_vars

\* C19 witness: the settings were changed while the first cycle was in
\* flight (the second one started with other settings before the first
\* wrote the cache); the first cycle still dropped the project its own
\* settings exclude, the second one ran in the mode of the new settings.
C19_Witness ==
    /\ Len(cycles) = 2
    /\ cycles[1].result = "updated"
    /\ cycles[1].settings.excludedProjectPatterns # <<>>
    /\ cycles[1].projects = <<Project("1", LaunchPlan)>>
    /\ cycles[2].settings # cycles[1].settings /\ cycles[2].settings = settings
    /\ cycles[2].tasksAtStart = OldTasks
    /\ cycles[2].result = "updated"
    /\ Len(cycles[2].taskSets) = 2
    /\ cycles[2].projects = <<Project("1", LaunchPlan), Project("7", Other)>>

\* The next step of invocation i.
StepOf(i) ==
    \/ WorkspacesReply(i) \/ UsersReply(i) \/ TasksReply(i)
    \/ TaskSetReply(i) \/ ProjectsReply(i)

\* C23: a step that changes the timer (stopPolling, startPolling,
\* restartPolling) leaves every cycle as it is; a cycle in flight can take
\* its next step whatever the timer is; the step that ends it successfully
\* writes its tasks and projects to the cache and publishes its event, the
\* step that fails it publishes the error; without a live timer there is no
\* timer tick.
C23_NoCancellation ==
    [][ /\ \A i \in Cycles :
              /\ (liveTimers' # liveTimers \/ _pollTimer' # _pollTimer) =>
                     cycles'[i] = cycles[i]
              /\ cycles[i].pc # "done" => ENABLED StepOf(i)
              /\ (cycles[i].pc # "done" /\ cycles'[i].pc = "done") =>
                     /\ cycles'[i].result \in {"updated", "error", "skipped"}
                     /\ cycles'[i].result = "updated" =>
                           /\ cachedTasks' = cycles'[i].tasks
                           /\ cachedProjects' = cycles'[i].projects
                     /\ (_onUpdate /\ cycles'[i].result # "skipped") =>
                           cycles'[i].events = <<cycles'[i].result>>
        /\ liveTimers = {} => ~ENABLED TimerTick
      ]_vars

\* C23 witness: startPolling started the only cycle and installed a timer;
\* stopPolling cleared the timer while the cycle was in flight; the cycle
\* then ended, wrote the cache and published its event.
C23_Witness ==
    /\ Len(cycles) = 1 /\ cycles[1].subscribed
    /\ cycles[1].result = "updated" /\ cycles[1].timerAtEnd = NoTimer
    /\ cycles[1].events = <<"updated">>
    /\ tasksWriter = 1 /\ cachedProjects = cycles[1].projects
    /\ cachedProjects # OldProjects

\* C25 (as written): a cycle that has its workspace fetches the users iff
\* the cached user list is empty at that moment, and a step of a poll cycle
\* never changes a cached user list that is not empty.
C25_AsWritten ==
    [][ /\ \A i \in Cycles :
              (cycles[i].pc = "workspaces" /\ cycles'[i].pc \notin {"workspaces", "done"}) =>
                  (cycles'[i].usersFetched <=> cachedUsers = <<>>)
        /\ cachedUsers # <<>> => cachedUsers' = cachedUsers
      ]_vars

\* C26 (as written): once no cycle is in flight, the cached tasks and
\* projects are those written by the most recently started successful cycle.
C26_AsWritten ==
    InFlight = {} =>
        \A i \in Cycles :
            (cycles[i].result = "updated" /\ \A j \in Cycles : j > i => cycles[j].result # "updated")
            => cachedTasks = cycles[i].tasks /\ cachedProjects = cycles[i].projects

C29_EarlyReturns ==
    [][ \A i \in 1..Len(cycles') :
            LET c == cycles'[i] IN
            /\ ~c.settings.apiKeyVerified =>
                  /\ c.pc = "done" /\ c.result = "skipped" /\ c.fetches = 0
                  /\ c.tasksAtEnd = c.tasksAtStart /\ c.projectsAtEnd = c.projectsAtStart
            /\ c.result = "skipped" =>
                  /\ c.events = <<>>
                  /\ c.fetches = IF c.settings.apiKeyVerified THEN 1 ELSE 0
                  /\ ~c.usersFetched /\ c.asked = <<>> /\ ~c.projectsFetched
                  /\ tasksWriter' # i /\ projectsWriter' # i
                  /\ (i \notin Cycles \/ cycles[i].result # "skipped") =>
                        /\ cachedTasks' = cachedTasks /\ cachedProjects' = cachedProjects
                        /\ cachedUsers' = cachedUsers
      ]_vars

\* C29 witness: with a subscriber registered, one cycle found the key not
\* verified and another one, with a verified key, got no workspace; the
\* cache is the one the store started with.
C29_Witness ==
    /\ Len(cycles) = 2 /\ _onUpdate
    /\ \E i, j \in Cycles :
          /\ ~cycles[i].settings.apiKeyVerified /\ cycles[i].result = "skipped"
          /\ cycles[i].subscribed
          /\ cycles[j].settings.apiKeyVerified /\ cycles[j].result = "skipped"
          /\ cycles[j].fetches = 1 /\ cycles[j].subscribed
    /\ cachedTasks = OldTasks /\ cachedProjects = OldProjects /\ tasksWriter = 0

\* C24: with every HTTP call returning, every backoff timer firing and the
\* remote ending every paginated list, a cycle that has started ends, as
\* updated, failed or skipped; no _fetch makes more than MAX_RETRIES retries.
C24_CycleEnds ==
    /\ [](retryCount <= MAX_RETRIES)
    /\ (cycles # <<>>) ~>
          (cycles # <<>> /\ cycles[1].pc = "done"
             /\ cycles[1].result \in {"updated", "error", "skipped"})

\* C24 witness: the third page of a paginated call was answered 429 until
\* the retries were used up; the call failed and the cycle ended.
C24_Witness ==
    /\ cycles # <<>> /\ cycles[1].result = "error"
    /\ Len(pageUrls) = MaxPages /\ apc = "threw"
    /\ retryCount = MAX_RETRIES /\ fetchError = "http"

\* C7 (as written): every cycle publishes exactly one event before it ends.
C7_AsWritten ==
    \A i \in Cycles : cycles[i].pc = "done" => Len(cycles[i].events) = 1

\* C7 (amended): a cycle publishes nothing before it ends and at most one
\* event when it ends: none if it returned early (key not verified, no
\* workspace) or no subscriber is registered at its end, else exactly one,
\* "updated" ({tasks, projects}) or "error", as it ended.
C7_EventPerCycle ==
    \A i \in Cycles :
        LET c == cycles[i] IN
        /\ c.pc # "done" => c.events = <<>> /\ c.result = "running"
        /\ c.pc = "done" =>
              /\ c.result \in {"skipped", "updated", "error"}
              /\ ~c.settings.apiKeyVerified => c.result = "skipped" /\ c.fetches = 0
              /\ c.events = IF c.result # "skipped" /\ c.subscribed
                            THEN <<c.result>> ELSE <<>>

\* One cycle published its update, another one with a verified key found no
\* workspace and ended silently although a subscriber was registered.
C7_Witness ==
    \E i, j \in Cycles :
        /\ cycles[i].events = <<"updated">>
        /\ cycles[j].pc = "done" /\ cycles[j].result = "skipped"
        /\ cycles[j].settings.apiKeyVerified /\ cycles[j].subscribed
        /\ cycles[j].events = <<>>

\* C8 (as written, for cycles that end with a subscriber): a cycle with a
\* failed fetch publishes an error event, and the cached tasks and projects
\* are then what they were when it started.
C8_AsWritten ==
    \A i \in Cycles :
        LET c == cycles[i] IN
        (c.result = "error" /\ c.subscribed)
        => /\ c.events = <<"error">>
           /\ c.tasksAtEnd = c.tasksAtStart
           /\ c.projectsAtEnd = c.projectsAtStart

====
